---- MODULE Spec2Model ----
(***************************************************************************)
(* Model of calmlib.telegram.telegram_cache.TelegramCache: the message     *)
(* sync engine (get_raw_messages and everything it calls), the two store   *)
(* backends (MongoDB collection / one JSON file per chat), the freshness   *)
(* prober and the migration overlay.                                       *)
(*                                                                         *)
(* A message is a record [chat_id, id, date]; its payload is opaque to the *)
(* engine and is left out.  Message ids of a chat are 1..Len(remote[c]),   *)
(* in the order the messages were posted, so dates are non-decreasing in   *)
(* the id and two messages of a chat may carry the same date.              *)
(*                                                                         *)
(* The Telegram client (Telethon) is an external collaborator; the gateway *)
(* operators below follow its documented behaviour: iter_messages yields   *)
(* newest first, offset_date is exclusive, add_offset skips that many      *)
(* further messages, reverse=True yields oldest first and reverses the     *)
(* meaning of offset_date, get_messages(chat).total is the chat's size.    *)
(***************************************************************************)
EXTENDS Integers, Sequences, FiniteSets

\* ---------------------------------------------------------------- bounds
MaxMsgs == 3     \* most messages the growing chat ever holds
MaxOld == 2      \* most messages the static chat holds
MaxDate == 3     \* dates are 1..MaxDate
MaxLimit == 2    \* limits enumerated: None, 1..MaxLimit
MaxOffset == 1   \* offsets enumerated: None, 1..MaxOffset
MidDate == 2     \* the date used as min_date / max_date
MaxFaultAfter == 1   \* completed iterations before the fault sets in
MaxFaultAt == 1      \* messages the failing iteration delivers first
NumProcs == 2        \* processes that authenticate the same session name
LockTimeout == 2     \* lock_timeout_sec, in units of lock_poll_sec
LockPoll == 1        \* lock_poll_sec: the time one sleep takes

\* ------------------------------------------------------ program constants
NEWEST_MESSAGE_CHECK_THRESHOLD == 5
NoneVal == 0     \* Python's None for limit / offset / min_date / max_date
OldChat == 100   \* the static chat; the predecessor id when migrated
NewChat == 200   \* the chat that receives messages; the live id
Chats == {OldChat, NewChat}
ChatOrder == <<OldChat, NewChat>>

VARIABLES
    mongo_enabled,              \* self.mongo_enabled: the backend in use
    migrated,                   \* remote fact: OldChat carries migrated_to -> NewChat
    remote,                     \* remote[c]: dates of chat c's messages, by id
    store,                      \* store[c]: the persisted records of chat c
    fileExists,                 \* JSON backend: messages_<c>.json exists
    dialogs,                    \* self._dialogs: [loaded, date]
    newest_message_call_count,  \* self._newest_message_call_count
    migration_map,              \* self._migration_map: [loaded, map]
    entitiesFile,               \* dialog_entities.json: [exists, migrated]
    last,                       \* the observation of the latest operation
    twin,                       \* a second engine on the other backend, run
                                \* side by side with the first (SpecPair only)
    \* authenticate_telethon_client, one call per process, same session name
    pc,                         \* pc[p]: where process p's call stands
    lock_acquired,              \* lock_acquired[p]
    waited,                     \* waited[p]: time.monotonic() - start
    timed_out,                  \* timed_out[p]: TimeoutError was raised
    exc,                        \* exc[p]: the exception the call ended with
    removed,                    \* removed[p]: the call unlinked the session file
    lock_holder,                \* who holds the flock on <name>.session.lock
    session_file,               \* <name>.session exists
    \* init_migration_map(entities) on its own
    builder,                    \* [entities, loaded, map, ids, calls, prev]
    pinned,                     \* remote fact: the <<chat, id>> whose message
                                \* has the optional attribute "pinned" set
    \* the gateway clients of the process and the cache instances using them
    client_cache,               \* alru_cache of get_telethon_client, by account
    blocks,                     \* the get_telegram_cache_context() blocks
    singleton,                  \* the TelegramCache singleton
    \* TelegramDownloader.download_all_chats
    downloader,                 \* [running, returned, todo, inflight, done,
                                \*  stats, limit]
    \* get_raw_messages calls that run concurrently, step by step
    tasks                       \* tasks[t]: the position and the locals of
                                \* the call task t is making

\* the variables of authenticate_telethon_client
session == <<pc, lock_acquired, waited, timed_out, exc, removed, lock_holder,
             session_file>>

\* the variables of the parts that are modelled on their own
lifecycle == <<client_cache, blocks, singleton>>
side == <<builder, pinned, lifecycle, downloader, tasks>>

vars == <<mongo_enabled, migrated, remote, store, fileExists, dialogs,
          newest_message_call_count, migration_map, entitiesFile, last, twin,
          session, side>>

\* the variables of TelegramCache, which authenticate_telethon_client
\* leaves alone
engine == <<mongo_enabled, migrated, remote, store, fileExists, dialogs,
            newest_message_call_count, migration_map, entitiesFile, last, twin>>
cache == <<engine, side>>

\* the variables the operations of one TelegramCache leave alone
others == <<twin, session, side>>

Procs == 1..NumProcs
NoProc == 0

\* no process has called authenticate_telethon_client yet: no session file
InitSession ==
    /\ pc = [p \in Procs |-> "idle"]
    /\ lock_acquired = [p \in Procs |-> FALSE]
    /\ waited = [p \in Procs |-> 0]
    /\ timed_out = [p \in Procs |-> FALSE]
    /\ exc = [p \in Procs |-> "none"]
    /\ removed = [p \in Procs |-> FALSE]
    /\ lock_holder = NoProc
    /\ session_file = FALSE

\* no dict is built: "self._migration_map = None"
NoDict == [k \in {} |-> NoneVal]
NoBuilder ==
    [entities |-> <<>>, loaded |-> FALSE, map |-> NoDict, ids |-> {},
     calls |-> 0, prev |-> [held |-> FALSE, map |-> NoDict, ids |-> {}]]

\* the parts modelled on their own, before they are used
MaxBlocks == 2
Blocks == 1..MaxBlocks
Accounts == {"primary", "secondary"}

\* no client was made, no block is open, the singleton holds no client
NoClient == [cached |-> FALSE, connected |-> FALSE]
NoBlock == [open |-> FALSE, account |-> "secondary", held |-> FALSE, connected |-> FALSE]
InitLifecycle ==
    /\ client_cache = [a \in Accounts |-> NoClient]
    /\ blocks = [b \in Blocks |-> NoBlock]
    /\ singleton = [account |-> "secondary", held |-> FALSE]

\* the stats dict of download_all_chats
NoStats ==
    [total_chats |-> 0, processed_chats |-> 0, total_new_messages |-> 0,
     errors |-> 0, skipped |-> 0]
NoDownload ==
    [running |-> FALSE, returned |-> FALSE, todo |-> <<>>, inflight |-> {},
     done |-> <<>>, stats |-> NoStats, limit |-> NoneVal]

NumTasks == 2
MaxTaskLimit == 1
Tasks == 1..NumTasks

\* the arguments of iter_messages that _get_raw_messages was called with
NoFetch == [limit |-> NoneVal, offset |-> NoneVal, offset_date |-> NoneVal, reverse |-> FALSE]

\* a task that is not in a call
IdleTask ==
    [pc |-> "idle", ignore_cache |-> FALSE, limit |-> NoneVal, messages |-> <<>>,
     buf |-> <<>>, pending |-> <<>>, existing |-> <<>>, existed |-> FALSE,
     fp |-> NoFetch, cont |-> "none", local_max |-> NoneVal,
     ret |-> <<>>, err |-> FALSE, overlapped |-> FALSE]

InitSide ==
    /\ builder = NoBuilder
    /\ pinned = {}
    /\ InitLifecycle
    /\ downloader = NoDownload
    /\ tasks = [t \in Tasks |-> IdleTask]

\* ------------------------------------------------------- sequence helpers
Take(s, n) == SubSeq(s, 1, IF n < Len(s) THEN n ELSE Len(s))
Drop(s, n) == SubSeq(s, n + 1, Len(s))
Reverse(s) == [i \in 1..Len(s) |-> s[Len(s) + 1 - i]]
Range(s) == {s[i] : i \in 1..Len(s)}
Filter(s, lo, hi, strict) ==
    \* the elements of s with lo <(=) date <(=) hi, in the order of s;
    \* NoneVal for lo / hi means no bound on that side
    SelectSeq(s, LAMBDA m :
        /\ (lo = NoneVal \/ (IF strict THEN m.date > lo ELSE m.date >= lo))
        /\ (hi = NoneVal \/ (IF strict THEN m.date < hi ELSE m.date <= hi)))

RECURSIVE InsertDesc(_, _)
InsertDesc(sorted, m) ==
    \* m goes after every element whose date is >= m.date (stable)
    IF sorted = <<>> THEN <<m>>
    ELSE IF sorted[1].date >= m.date
         THEN <<sorted[1]>> \o InsertDesc(Tail(sorted), m)
         ELSE <<m>> \o sorted

RECURSIVE SortAcc(_, _)
SortAcc(acc, s) ==
    IF s = <<>> THEN acc ELSE SortAcc(InsertDesc(acc, s[1]), Tail(s))

\* a sort that leaves the list as it is
Unsorted(s) == s

\* sorted(messages, key=date, reverse=True): stable, newest first
SortedByDateDesc(s) == SortAcc(<<>>, s)

IsNewestFirst(s) == \A i \in 1..(Len(s) - 1) : s[i].date >= s[i + 1].date
Keys(s) == {<<s[i].chat_id, s[i].id>> : i \in 1..Len(s)}
NoDuplicateKeys(s) ==
    \A i, j \in 1..Len(s) :
        (s[i].chat_id = s[j].chat_id /\ s[i].id = s[j].id) => i = j

RECURSIVE DedupAcc(_, _, _)
DedupAcc(acc, seen, s) ==
    IF s = <<>> THEN acc
    ELSE IF s[1].id \in seen
         THEN DedupAcc(acc, seen, Tail(s))
         ELSE DedupAcc(Append(acc, s[1]), seen \cup {s[1].id}, Tail(s))

\* _deduplicate_messages / _deduplicate_messages_dicts: the first record of
\* each message id is kept; the chat is not part of the key
_deduplicate_messages(messages) == DedupAcc(<<>>, {}, messages)

\* ---------------------------------------------------------------- gateway
\* the optional attributes of a message that Message(...) accepts; a
\* record keeps the names of those that are set, since cleanup_none drops
\* an attribute that is None or False from what is stored
MessageFields == {"pinned"}

\* the message as the gateway gives it
Msg(c, i) ==
    [chat_id |-> c, id |-> i, date |-> remote[c][i],
     flags |-> IF <<c, i>> \in pinned THEN {"pinned"} ELSE {}]

\* the chat's history as the gateway lists it by default: newest first
RemoteNewestFirst(c) == [k \in 1..Len(remote[c]) |-> Msg(c, Len(remote[c]) + 1 - k)]
RemoteOldestFirst(c) == [k \in 1..Len(remote[c]) |-> Msg(c, k)]

\* client.iter_messages(chat, limit=, add_offset=, offset_date=, reverse=)
iter_messages(c, limit, add_offset, offset_date, reverse) ==
    LET anchored == IF reverse
                    THEN Filter(RemoteOldestFirst(c), offset_date, NoneVal, TRUE)
                    ELSE Filter(RemoteNewestFirst(c), NoneVal, offset_date, TRUE)
        skipped == IF add_offset = NoneVal THEN anchored ELSE Drop(anchored, add_offset)
    IN IF limit = NoneVal THEN skipped ELSE Take(skipped, limit)

\* (await client.get_messages(chat_id)).total
TotalCount(c) == Len(remote[c])

\* the date a Dialog of client.get_dialogs() carries: its newest message's
NewestRemoteDate(c) == remote[c][Len(remote[c])]

\* the entities the gateway's dialog list carries: who migrated to whom
RemoteMigrations == IF migrated THEN {<<OldChat, NewChat>>} ELSE {}

\* ------------------------------------------------- the engine's call context
\* The engine's fields while one public call runs, plus what the call
\* returns (out / val / err) and what it asked of the gateway:
\*   path     per chat id served: "direct" (gateway) or "cache"
\*   iters    the history iterations (client.iter_messages, the probe
\*            excepted), one record each: chat, min_date, avail (what the
\*            iterator would yield if consumed to its end), pulled (what was
\*            consumed), kept (what was appended, saved and returned)
\*   nTotal   total-count queries (client.get_messages(chat).total)
\*   nProbe   single-message freshness probes (iter_messages(limit=1))
\*   nDialogs dialog listings (client.get_dialogs)
\*   fault    the gateway fault of this call: the kind of request that
\*            raises ("dialogs", "total", "probe", "iter" or "none"); for
\*            "iter", after how many completed iterations the fault sets in
\*            and how many messages the failing iteration delivers first
\*   faulted  gateway requests of this call that raised
\*   lost     what the aborted iteration had delivered when it raised
\*   reversed the order in which the server applies the writes of an
\*            unordered bulk write during this call: as listed or reversed
\* Every step takes the context it continues from as a parameter and yields
\* the context it leaves behind.
NoFault == [kind |-> "none", after |-> 0, at |-> 0]

Ctx0(reversed) ==
    [mongo_enabled |-> mongo_enabled, store |-> store, reversed |-> reversed,
     fileExists |-> fileExists, dialogs |-> dialogs,
     count |-> newest_message_call_count, migration_map |-> migration_map,
     entitiesFile |-> entitiesFile,
     err |-> FALSE, out |-> <<>>, val |-> NoneVal, path |-> <<>>,
     iters |-> <<>>, nTotal |-> 0, nProbe |-> 0, nDialogs |-> 0,
     fault |-> NoFault, faulted |-> 0, lost |-> <<>>]

\* the same with a gateway fault that strikes during the call
CtxFault(reversed, f) == [Ctx0(reversed) EXCEPT !.fault = f]

\* an exception leaves the call: nothing is returned.  Once it is raised
\* no later step of the call runs.
Raise(s) == [s EXCEPT !.err = TRUE, !.out = <<>>]
SetOut(s, messages) == IF s.err THEN s ELSE [s EXCEPT !.out = messages]
SetVal(s, v) == IF s.err THEN s ELSE [s EXCEPT !.val = v]
AddPath(s, p) == [s EXCEPT !.path = Append(@, p)]

\* the gateway raises on a request of this call
Faulted(s) == [s EXCEPT !.faulted = @ + 1]

NoDialogs == [loaded |-> FALSE, date |-> [c \in Chats |-> NoneVal], entities |-> {}]
NoMigrationMap == [loaded |-> FALSE, map |-> {}]

\* init_dialogs: one dialog listing unless a snapshot is held; the listing
\* is followed by _get_dialog_entities, which rewrites dialog_entities.json
init_dialogs(s) ==
    IF s.err \/ s.dialogs.loaded THEN s
    ELSE IF s.fault.kind = "dialogs"
    THEN Raise(Faulted([s EXCEPT !.nDialogs = @ + 1]))
    ELSE [s EXCEPT
            !.dialogs = [loaded |-> TRUE,
                         date |-> [c \in Chats |-> NewestRemoteDate(c)],
                         entities |-> RemoteMigrations],
            !.nDialogs = @ + 1,
            !.entitiesFile = [exists |-> TRUE, entities |-> RemoteMigrations]]

\* _get_dialog_entities: the entities of the dialogs held, saved to the file
_get_dialog_entities(s) ==
    IF s.err THEN s
    ELSE
    [s EXCEPT !.entitiesFile = [exists |-> TRUE, entities |-> s.dialogs.entities]]

\* get_raw_dialogs(invalidate_cache): the snapshot is dropped first when
\* asked; the dialogs held afterwards are what it returns
get_raw_dialogs(s, invalidate_cache) ==
    init_dialogs(IF invalidate_cache THEN [s EXCEPT !.dialogs = NoDialogs] ELSE s)

\* get_raw_dialog_entities(invalidate_cache): from the file when it exists
\* and no refresh is asked, else through _get_dialog_entities, whose
\* get_raw_dialogs() call keeps a snapshot that is held.  The entities it
\* returns are those the file holds afterwards.
get_raw_dialog_entities(s, invalidate_cache) ==
    IF ~invalidate_cache /\ s.entitiesFile.exists THEN s
    ELSE _get_dialog_entities(get_raw_dialogs(s, FALSE))

\* the loop of init_migration_map: {new_id: old_id} for every entity with a
\* migrated_to.channel_id, as a set of <<new_id, old_id>>
BuildMigrationMap(entities) == {<<e[2], e[1]>> : e \in entities}

SetMigrationMap(s) ==
    IF s.err THEN s
    ELSE
    [s EXCEPT !.migration_map =
        [loaded |-> TRUE, map |-> BuildMigrationMap(s.entitiesFile.entities)]]

\* init_migration_map(entities=None): built once, then kept
init_migration_map(s) ==
    IF s.migration_map.loaded THEN s
    ELSE SetMigrationMap(get_raw_dialog_entities(s, FALSE))

\* init_migration_map(entities), the entities being those just returned by
\* get_raw_dialog_entities
init_migration_map_from(s) ==
    IF s.migration_map.loaded THEN s ELSE SetMigrationMap(s)

\* entity.migrated_to.channel_id of a chat entity, NoneVal without it
MigratedTo(entities, c) ==
    IF \E e \in entities : e[1] = c THEN (CHOOSE e \in entities : e[1] = c)[2]
    ELSE NoneVal

\* self._migration_map.get(chat_id)
MigratedFrom(map, c) ==
    IF \E p \in map : p[1] = c THEN (CHOOSE p \in map : p[1] = c)[2] ELSE NoneVal

\* the chat objects get_chats builds, one per entity, in dialog order
ChatObj(entities, c) ==
    [id |-> c, migrated_to |-> MigratedTo(entities, c), migrated_from |-> NoneVal]
ChatObjs(entities) == [i \in 1..Len(ChatOrder) |-> ChatObj(entities, ChatOrder[i])]

\* _process_migrations: the migrated chats are dropped, the chats migrated
\* to are linked to their predecessors
RECURSIVE _process_migrations(_, _)
_process_migrations(map, chats) ==
    IF chats = <<>> THEN <<>>
    ELSE IF \E p \in map : p[2] = Head(chats).id
         THEN _process_migrations(map, Tail(chats))
         ELSE <<[Head(chats) EXCEPT !.migrated_from = MigratedFrom(map, Head(chats).id)]>>
              \o _process_migrations(map, Tail(chats))

ProcessedChats(s) ==
    SetOut(s, _process_migrations(s.migration_map.map, ChatObjs(s.entitiesFile.entities)))

\* get_chats(ignore_cache), without filters
get_chats(s, ignore_cache) ==
    ProcessedChats(init_migration_map_from(get_raw_dialog_entities(s, ignore_cache)))

\* ------------------------------------------------------------ store adapter
MinDate(recs) ==
    CHOOSE d \in {recs[i].date : i \in 1..Len(recs)} :
        \A i \in 1..Len(recs) : d <= recs[i].date
MaxDateOf(recs) ==
    CHOOSE d \in {recs[i].date : i \in 1..Len(recs)} :
        \A i \in 1..Len(recs) : d >= recs[i].date

\* _get_message_range's aggregation over the records of one chat
\* (MongoDB only; the JSON backend raises NotImplementedError instead)
_get_message_range(recs) ==
    IF recs = <<>> THEN [min_date |-> NoneVal, max_date |-> NoneVal, count |-> 0]
    ELSE [min_date |-> MinDate(recs), max_date |-> MaxDateOf(recs), count |-> Len(recs)]

\* a write that inserts without looking for the document
InsertOne(recs, m) == Append(recs, m)

\* UpdateOne({"_id": "<chat>_<id>"}, {"$set": doc}, upsert=True): the fields
\* of doc are set on the stored document in place and its other fields
\* stay; a new document is appended
UpsertOne(recs, m) ==
    IF \E i \in 1..Len(recs) : recs[i].id = m.id
    THEN [i \in 1..Len(recs) |->
            IF recs[i].id = m.id THEN [m EXCEPT !.flags = recs[i].flags \cup @]
            ELSE recs[i]]
    ELSE Append(recs, m)

RECURSIVE UpsertAll(_, _)
UpsertAll(recs, messages) ==
    IF messages = <<>> THEN recs
    ELSE UpsertAll(UpsertOne(recs, messages[1]), Tail(messages))

\* _save_messages_to_mongo: bulk_write(operations, ordered=False)
_save_messages_to_mongo(s, c, messages) ==
    IF messages = <<>> THEN s
    ELSE [s EXCEPT !.store[c] =
            UpsertAll(@, IF s.reversed THEN Reverse(messages) ELSE messages)]

\* _save_messages_to_json: a new file takes the page as fetched; an existing
\* file is merged, deduplicated by id and sorted newest first
_save_messages_to_json(s, c, messages) ==
    [s EXCEPT
        !.store[c] = IF s.fileExists[c]
                     THEN SortedByDateDesc(_deduplicate_messages(messages \o @))
                     ELSE messages,
        !.fileExists[c] = TRUE]

_save_raw_messages(s, c, messages) ==
    IF s.mongo_enabled THEN _save_messages_to_mongo(s, c, messages)
    ELSE _save_messages_to_json(s, c, messages)

SkipAndLimit(found, limit, offset) ==
    IF limit # NoneVal
    THEN Take(IF offset # NoneVal THEN Drop(found, offset) ELSE found, limit)
    ELSE IF offset # NoneVal THEN Drop(found, offset) ELSE found

\* _load_messages_from_mongo: find(query).sort("date", -1).skip().limit();
\* documents of equal date come in insertion order
_load_messages_from_mongo(recs, limit, offset, min_date, max_date) ==
    SkipAndLimit(SortedByDateDesc(Filter(recs, min_date, max_date, FALSE)), limit, offset)

\* _load_messages_to_json: the whole file, in file order
_load_messages_to_json(recs) == recs

\* "Message(**doc)" raises on a field it does not accept
Malformed(docs) == \E i \in 1..Len(docs) : ~(docs[i].flags \subseteq MessageFields)

\* _has_cached_messages
_has_cached_messages(s, c) ==
    IF s.mongo_enabled THEN s.store[c] # <<>> ELSE s.fileExists[c]

\* ------------------------------------------------------- freshness prober
FirstDate(messages) == IF messages = <<>> THEN NoneVal ELSE messages[1].date

\* "async for message in client.iter_messages(chat_id, limit=1)"; a chat
\* outside the model's two histories has no message
ProbeNewest(s, c) ==
    IF s.fault.kind = "probe"
    THEN \* "except Exception as e: logger.warning(...); return None"
         Faulted([s EXCEPT !.nProbe = @ + 1, !.val = NoneVal])
    ELSE
    [s EXCEPT !.nProbe = @ + 1,
              !.val = IF c \in Chats
                      THEN FirstDate(iter_messages(c, 1, NoneVal, NoneVal, FALSE))
                      ELSE NoneVal]

DialogDate(s, c) == SetVal(s, s.dialogs.date[c])

\* "chat_id in self.dialogs"
InDialogs(s, c) == c \in DOMAIN s.dialogs.date

\* "if chat_id in self.dialogs: return dialog.date", else the warning and
\* the single-message fetch below it; d is the engine after init_dialogs
FromSnapshotOrProbe(d, c) ==
    IF d.err THEN d
    ELSE IF InDialogs(d, c) THEN DialogDate(d, c)
    ELSE ProbeNewest(d, c)

\* the threshold test with the comparison made strict
AfterCountStrict(s, c) ==
    IF s.count > NEWEST_MESSAGE_CHECK_THRESHOLD
    THEN FromSnapshotOrProbe(init_dialogs(s), c)
    ELSE ProbeNewest(s, c)

\* the part of _get_newest_message_date after the counter is incremented
AfterCount(s, c) ==
    IF s.count >= NEWEST_MESSAGE_CHECK_THRESHOLD
    THEN FromSnapshotOrProbe(init_dialogs(s), c)
    ELSE ProbeNewest(s, c)

\* _get_newest_message_date; the date (or NoneVal) is left in val.  A chat
\* that the snapshot does not list falls through to the counter and the
\* single-message fetch.
_get_newest_message_date(s, c) ==
    IF s.dialogs.loaded /\ InDialogs(s, c) THEN DialogDate(s, c)
    ELSE AfterCount([s EXCEPT !.count = @ + 1], c)

\* ------------------------------------------------------------ sync engine
\* a loop without the break
NeverBreak(it, min_date) == Len(it) + 1

\* the position at which "if min_date and m.date < min_date: break" fires,
\* Len + 1 when it never does
BreakAt(it, min_date) ==
    IF min_date # NoneVal /\ \E i \in 1..Len(it) : it[i].date < min_date
    THEN CHOOSE i \in 1..Len(it) :
            /\ it[i].date < min_date
            /\ \A j \in 1..(i - 1) : it[j].date >= min_date
    ELSE Len(it) + 1

\* "if total is None: if limit is None: total = (await
\* client.get_messages(chat_id)).total", for the progress bar
ProgressTotal(s, limit) ==
    IF s.err \/ limit # NoneVal THEN s
    ELSE IF s.fault.kind = "total"
    THEN \* "except: total = None"
         Faulted([s EXCEPT !.nTotal = @ + 1])
    ELSE [s EXCEPT !.nTotal = @ + 1]

\* the loop of _get_raw_messages over the iterator it: the messages up to
\* the break are consumed, those before it are kept, saved and returned
ConsumeAndSave(s, c, it, min_date, stop) ==
    SetOut(_save_raw_messages(
               [s EXCEPT !.iters = Append(@,
                   [chat |-> c, min_date |-> min_date, avail |-> it,
                    pulled |-> Take(it, stop), kept |-> SubSeq(it, 1, stop - 1)])],
               c, SubSeq(it, 1, stop - 1)),
           SubSeq(it, 1, stop - 1))

\* an iteration that saves what it had appended when the gateway raised
SavePartial(s, c, it) ==
    Raise(_save_raw_messages(Faulted([s EXCEPT !.lost = Take(it, s.fault.at)]),
                             c, Take(it, s.fault.at)))

\* the gateway raises inside "async for m in client.iter_messages(...)":
\* the exception leaves _get_raw_messages before _save_raw_messages, the
\* messages appended so far are dropped
AbortIteration(s, c, it) ==
    Raise(Faulted([s EXCEPT !.lost = Take(it, s.fault.at)]))

\* the fault strikes this iteration: it has set in, the request that fails
\* is the first one or one for messages the remote still has, and the loop
\* has not left through the break before
Strikes(s, it, stop) ==
    /\ s.fault.kind = "iter"
    /\ Len(s.iters) >= s.fault.after
    /\ s.fault.at = 0 \/ s.fault.at < Len(it)
    /\ stop > s.fault.at

IterateUntil(s, c, it, min_date) ==
    IF s.err THEN s
    ELSE IF Strikes(s, it, BreakAt(it, min_date)) THEN AbortIteration(s, c, it)
    ELSE ConsumeAndSave(s, c, it, min_date, BreakAt(it, min_date))

\* _get_raw_messages: the chat name (which loads the dialogs), the optional
\* total for the progress bar, the iteration with its early break, the save
_get_raw_messages(s, c, limit, offset, offset_date, min_date, reverse) ==
    IterateUntil(ProgressTotal(init_dialogs(s), limit), c,
                 iter_messages(c, limit, offset, offset_date, reverse), min_date)

\* what _load_newer_messages returns after fetching: MongoDB keeps the list
\* it was given, JSON puts the new messages, newest first, in front
MergeNewer(s, messages) ==
    SetOut(s, IF s.mongo_enabled THEN messages ELSE Reverse(s.out) \o messages)

\* a comparison that fetches also when the remote date equals the local one
FetchNewerOrEqual(s, c, messages, local_max) ==
    IF s.err \/ s.val = NoneVal \/ s.val < local_max THEN SetOut(s, messages)
    ELSE MergeNewer(_get_raw_messages(s, c, NoneVal, NoneVal, local_max, NoneVal, TRUE),
                    messages)

\* the comparison of _load_newer_messages, s.val being the prober's answer:
\* MongoDB "dialog_date <= max_date: return", JSON "latest < dialog: fetch"
CompareAndFetchNewer(s, c, messages, local_max) ==
    IF s.err \/ s.val = NoneVal \/ s.val <= local_max THEN SetOut(s, messages)
    ELSE MergeNewer(_get_raw_messages(s, c, NoneVal, NoneVal, local_max, NoneVal, TRUE),
                    messages)

\* the local newest date: MongoDB's aggregated max_date, JSON's
\* messages[0].date; NoneVal when nothing is held
LocalNewest(s, c, messages) ==
    IF s.mongo_enabled THEN _get_message_range(s.store[c]).max_date
    ELSE FirstDate(messages)

CheckNewer(s, c, messages, local_max) ==
    IF local_max = NoneVal THEN SetOut(s, messages)
    ELSE CompareAndFetchNewer(_get_newest_message_date(s, c), c, messages, local_max)

\* _load_newer_messages (both branches: they differ in LocalNewest and
\* MergeNewer only)
_load_newer_messages(s, c, messages) ==
    CheckNewer(s, c, messages, LocalNewest(s, c, messages))

\* _has_older_messages_in_range, on the range summary
_has_older_messages_in_range(r, min_date) == r.count = 0 \/ r.min_date > min_date

\* the min_date branch of _load_missing_messages, r being the range summary
LoadOlderInRange(s, c, messages, min_date, r) ==
    IF _has_older_messages_in_range(r, min_date)
    THEN SetOut(_get_raw_messages(s, c, NoneVal, NoneVal, r.min_date, min_date, FALSE),
                messages)
    ELSE SetOut(s, messages)

ExtendWith(s, messages) == SetOut(s, messages \o s.out)

\* "offset_date=min_date_mongo if count > 0 else None"
OldestCachedDate(r) == IF r.count > 0 THEN r.min_date ELSE NoneVal

\* the count branch of _load_missing_messages once limit and offset are
\* settled; _get_message_range raises on the JSON backend
LoadOlderByCount(s, c, messages, limit, offset) ==
    IF s.err THEN s
    ELSE IF Len(messages) < limit
    THEN IF ~s.mongo_enabled THEN Raise(s)
         ELSE ExtendWith(
                 _get_raw_messages(s, c, limit - Len(messages), offset + Len(messages),
                                   OldestCachedDate(_get_message_range(s.store[c])),
                                   NoneVal, FALSE),
                 messages)
    ELSE SetOut(s, messages)

\* "limit = total if limit is None else min(limit, total)"
TargetCount(limit, total_message_count) ==
    IF limit = NoneVal THEN total_message_count
    ELSE IF limit < total_message_count THEN limit ELSE total_message_count

\* "all_messages = await client.get_messages(chat_id)", outside any try
CountTotal(s) ==
    IF s.fault.kind = "total" THEN Raise(Faulted([s EXCEPT !.nTotal = @ + 1]))
    ELSE [s EXCEPT !.nTotal = @ + 1]

\* _load_missing_messages
_load_missing_messages(s, c, messages, limit, offset, min_date) ==
    IF min_date # NoneVal
    THEN IF ~s.mongo_enabled THEN Raise(s)
         ELSE LoadOlderInRange(s, c, messages, min_date, _get_message_range(s.store[c]))
    ELSE LoadOlderByCount(
            CountTotal(s), c, messages,
            TargetCount(limit, IF offset # NoneVal THEN TotalCount(c) - offset
                               ELSE TotalCount(c)),
            IF offset # NoneVal THEN offset ELSE 0)

\* "if limit and len(messages) > limit: messages = messages[:limit]"
Truncate(messages, limit) ==
    IF limit # NoneVal /\ Len(messages) > limit THEN Take(messages, limit) ELSE messages

\* the tail of the JSON branch: deduplicate, sort, truncate
DedupSortTruncate(s, limit) ==
    IF s.err THEN s
    ELSE SetOut(s, Truncate(SortedByDateDesc(_deduplicate_messages(s.out)), limit))

\* the documents the MongoDB query selected are parsed one by one: "except:
\* logger.error(...); raise" ends the call at the first that fails
ParsedThenMissing(s, c, docs, limit, offset, min_date) ==
    IF Malformed(docs) THEN Raise(s)
    ELSE _load_missing_messages(s, c, docs, limit, offset, min_date)

\* the cache branch of _get_messages_for_single_chat after
\* _load_newer_messages: MongoDB queries the store with the filters and
\* checks for missing history; JSON takes the list it holds, checks by count
\* only, then deduplicates, sorts and truncates
ReadCache(s, c, limit, offset, min_date, max_date) ==
    IF s.err THEN s
    ELSE IF s.mongo_enabled
    THEN ParsedThenMissing(s, c,
             _load_messages_from_mongo(s.store[c], limit, offset, min_date, max_date),
             limit, offset, min_date)
    ELSE DedupSortTruncate(
             _load_missing_messages(s, c, s.out, limit, NoneVal, NoneVal), limit)

\* the JSON file is parsed before _load_newer_messages: nothing catches
\* what "Message(**message_data)" raises
ParsedThenNewer(s, c, docs) ==
    IF Malformed(docs) THEN Raise(s)
    ELSE _load_newer_messages(s, c, docs)

\* _get_messages_for_single_chat; reverse stands for the extra gateway
\* options (**kwargs), which are handed to iter_messages unchanged
_get_messages_for_single_chat(s, c, ignore_cache, limit, offset, min_date, max_date, reverse) ==
    IF ignore_cache \/ ~_has_cached_messages(s, c) \/ offset # NoneVal \/ reverse
    THEN _get_raw_messages(AddPath(s, "direct"), c, limit, offset, NoneVal, min_date, reverse)
    ELSE ReadCache(
            ParsedThenNewer(AddPath(s, "cache"), c,
                IF s.mongo_enabled THEN <<>> ELSE _load_messages_to_json(s.store[c])),
            c, limit, offset, min_date, max_date)

\* the merge of _get_messages_with_migration
MergeMigrated(new_messages, s, limit) ==
    IF s.err THEN s
    ELSE SetOut(s, Truncate(SortedByDateDesc(
                        _deduplicate_messages(new_messages \o s.out)), limit))

\* the second fetch (old chat) and the merge; s holds the first fetch
FetchOldAndMerge(s, old_chat_id, ignore_cache, limit, min_date, max_date, reverse) ==
    IF s.err THEN s
    ELSE MergeMigrated(s.out,
            _get_messages_for_single_chat(s, old_chat_id, ignore_cache, NoneVal, NoneVal,
                                          min_date, max_date, reverse),
            limit)

\* the fetch for chat_id itself: with the caller's limit and offset when the
\* chat has no predecessor, without them when it has one
FetchNew(s, c, old_chat_id, ignore_cache, limit, offset, min_date, max_date, reverse) ==
    _get_messages_for_single_chat(s, c, ignore_cache,
        IF old_chat_id = NoneVal THEN limit ELSE NoneVal,
        IF old_chat_id = NoneVal THEN offset ELSE NoneVal,
        min_date, max_date, reverse)

Overlay(s, c, old_chat_id, ignore_cache, limit, offset, min_date, max_date, reverse) ==
    IF old_chat_id = NoneVal
    THEN FetchNew(s, c, old_chat_id, ignore_cache, limit, offset, min_date, max_date, reverse)
    ELSE FetchOldAndMerge(
            FetchNew(s, c, old_chat_id, ignore_cache, limit, offset, min_date, max_date, reverse),
            old_chat_id, ignore_cache, limit, min_date, max_date, reverse)

ResolveAndFetch(s, c, ignore_cache, limit, offset, min_date, max_date, reverse) ==
    IF s.err THEN s
    ELSE
    Overlay(s, c, MigratedFrom(s.migration_map.map, c),
            ignore_cache, limit, offset, min_date, max_date, reverse)

\* _get_messages_with_migration
_get_messages_with_migration(s, c, ignore_cache, limit, offset, min_date, max_date, reverse) ==
    ResolveAndFetch(init_migration_map(s), c, ignore_cache, limit, offset,
                    min_date, max_date, reverse)

\* get_raw_messages(source: int, ...)
get_raw_messages(s, c, ignore_cache, limit, offset, min_date, max_date, reverse) ==
    _get_messages_with_migration(s, c, ignore_cache, limit, offset, min_date, max_date, reverse)

\* ---------------------------------------------------------------- actions
Limits == {NoneVal} \cup 1..MaxLimit
Offsets == {NoneVal} \cup 1..MaxOffset
Dates == 1..MaxDate
\* the window edges enumerated for min_date / max_date
OptDates == {NoneVal, MidDate}

NoArgs ==
    [ignore_cache |-> FALSE, limit |-> NoneVal, offset |-> NoneVal,
     min_date |-> NoneVal, max_date |-> NoneVal, reverse |-> FALSE]

\* what the caller of the latest operation saw, with the store as it was
\* and the dialog snapshot as they were when the operation started
Observation(op, c, a, s) ==
    [op |-> op, chat |-> c, args |-> a,
     err |-> s.err, ret |-> s.out, path |-> s.path, iters |-> s.iters,
     nTotal |-> s.nTotal, nProbe |-> s.nProbe, nDialogs |-> s.nDialogs,
     faulted |-> s.faulted, lost |-> s.lost,
     pre |-> store, preFile |-> fileExists, preDialogs |-> dialogs.loaded]

Idle ==
    [op |-> "idle", chat |-> NoneVal, args |-> NoArgs, err |-> FALSE,
     ret |-> <<>>, path |-> <<>>, iters |-> <<>>, nTotal |-> 0,
     nProbe |-> 0, nDialogs |-> 0, faulted |-> 0, lost |-> <<>>,
     pre |-> [c \in Chats |-> <<>>],
     preFile |-> [c \in Chats |-> FALSE], preDialogs |-> FALSE]

\* the second engine as constructed: nothing stored, nothing loaded
NoTwin ==
    [store |-> [c \in Chats |-> <<>>], fileExists |-> [c \in Chats |-> FALSE],
     dialogs |-> NoDialogs, count |-> 0, migration_map |-> NoMigrationMap,
     entitiesFile |-> [exists |-> FALSE, entities |-> {}], last |-> Idle]

Init ==
    /\ mongo_enabled \in BOOLEAN
    /\ migrated \in BOOLEAN
    /\ remote = [c \in Chats |-> IF c = OldChat THEN [i \in 1..MaxOld |-> i] ELSE <<1>>]
    /\ store = [c \in Chats |-> <<>>]
    /\ fileExists = [c \in Chats |-> FALSE]
    /\ dialogs = NoDialogs
    /\ newest_message_call_count = 0
    /\ migration_map = NoMigrationMap
    /\ entitiesFile = [exists |-> FALSE, entities |-> {}]
    /\ last = Idle
    /\ twin = NoTwin
    /\ InitSession
    /\ InitSide

\* the orders an unordered bulk write may be applied in (MongoDB only)
WriteOrders == IF mongo_enabled THEN BOOLEAN ELSE {FALSE}

\* TelegramCache.get_raw_messages(chat_id, ignore_cache=, limit=, offset=,
\* min_date=, max_date=, **kwargs)
GetMessages(c, a) ==
    /\ last.op = "idle"
    /\ \E reversed \in WriteOrders :
       \E s \in {get_raw_messages(Ctx0(reversed), c, a.ignore_cache, a.limit, a.offset,
                                 a.min_date, a.max_date, a.reverse)} :
          /\ store' = s.store
          /\ fileExists' = s.fileExists
          /\ dialogs' = s.dialogs
          /\ newest_message_call_count' = s.count
          /\ migration_map' = s.migration_map
          /\ entitiesFile' = s.entitiesFile
          /\ last' = Observation("get", c, a, s)
    /\ UNCHANGED <<mongo_enabled, migrated, remote>>
    /\ UNCHANGED others

\* the caller takes the result; the engine is ready for the next operation
Return ==
    /\ last.op # "idle"
    /\ last' = Idle
    /\ UNCHANGED <<mongo_enabled, migrated, remote, store, fileExists, dialogs,
                   newest_message_call_count, migration_map, entitiesFile>>
    /\ UNCHANGED others

\* TelegramCache.clear_cache(chat_id)
ClearCache(c) ==
    /\ last.op = "idle"
    /\ store' = [store EXCEPT ![c] = <<>>]
    /\ fileExists' = [fileExists EXCEPT ![c] = FALSE]
    /\ UNCHANGED <<mongo_enabled, migrated, remote, dialogs, newest_message_call_count,
                   migration_map, entitiesFile, last>>
    /\ UNCHANGED others

\* a message is posted to the live chat: its date is the newest date so
\* far or a later one
RemoteArrival(d) ==
    /\ last.op = "idle"
    /\ Len(remote[NewChat]) < MaxMsgs
    /\ d >= NewestRemoteDate(NewChat)
    /\ d <= NewestRemoteDate(NewChat) + 1
    /\ remote' = [remote EXCEPT ![NewChat] = Append(@, d)]
    /\ UNCHANGED <<mongo_enabled, migrated, store, fileExists, dialogs,
                   newest_message_call_count, migration_map, entitiesFile, last>>
    /\ UNCHANGED others

\* the process ends and a new one constructs TelegramCache (__init__): the
\* in-process fields are fresh, the store and the files stay
Restart ==
    /\ last.op = "idle"
    /\ dialogs' = NoDialogs
    /\ newest_message_call_count' = 0
    /\ migration_map' = NoMigrationMap
    /\ UNCHANGED <<mongo_enabled, migrated, remote, store, fileExists, entitiesFile, last>>
    /\ UNCHANGED others

CallArgs ==
    {a \in [ignore_cache : BOOLEAN, limit : Limits, offset : Offsets,
            min_date : OptDates, max_date : OptDates, reverse : BOOLEAN] :
        \* add_offset together with reverse is not modelled
        a.reverse => a.offset = NoneVal}

\* calls without date window and without extra gateway options
PagingArgs ==
    {a \in CallArgs : a.min_date = NoneVal /\ a.max_date = NoneVal /\ ~a.reverse}

\* one process: every call of the public surface, in any order
Next ==
    \/ \E c \in Chats, a \in CallArgs : GetMessages(c, a)
    \/ Return
    \/ \E c \in Chats : ClearCache(c)
    \/ \E d \in Dates : RemoteArrival(d)

Spec == Init /\ [][Next]_vars

\* several processes one after the other over the same store
NextProcess ==
    \/ \E c \in Chats, a \in PagingArgs : GetMessages(c, a)
    \/ Return
    \/ \E c \in Chats : ClearCache(c)
    \/ \E d \in Dates : RemoteArrival(d)
    \/ Restart

SpecProcess == Init /\ [][NextProcess]_vars

\* ------------------------------------------------------------- properties
\* the latest operation was a get_raw_messages call that returned normally
Returned == last.op = "get" /\ ~last.err

\* the chat of the latest call has a predecessor id in the migration map,
\* so the call served both ids and merged the two results
Overlaid == MigratedFrom(migration_map.map, last.chat) # NoneVal

\* the messages the latest call consumed from history iterations of chat c
RECURSIVE PulledFrom(_, _)
PulledFrom(its, c) ==
    IF its = <<>> THEN {}
    ELSE (IF its[1].chat = c THEN Range(its[1].pulled) ELSE {})
         \cup PulledFrom(Tail(its), c)

\* C1 as stated: every sequence get_raw_messages returns is sorted by date
\* descending, whatever the arguments, extra gateway options included
C1_NewestFirstAnyOptions == Returned => IsNewestFirst(last.ret)

\* C1 amended: the returned sequence is sorted by date descending for every
\* combination of limit, offset, min_date, max_date and ignore_cache, and
\* with extra gateway options too when the chat has a predecessor (the merge
\* sorts); a chat without predecessor called with extra gateway options gets
\* the gateway's order
C1_NewestFirst ==
    (Returned /\ (~last.args.reverse \/ Overlaid)) => IsNewestFirst(last.ret)

\* C1 witness: a merged call that returned messages of both ids, of
\* different dates, newest first
C1_Witness ==
    /\ Returned /\ Overlaid
    /\ \E i, j \in 1..Len(last.ret) :
          /\ i < j
          /\ last.ret[i].chat_id # last.ret[j].chat_id
          /\ last.ret[i].date > last.ret[j].date

RemoteSet(c) == Range(RemoteNewestFirst(c))

\* recs holds the newest k of chat c's n remote messages, 0 < k < n
HoldsNewestPart(recs, c) ==
    \E k \in 1..(Len(remote[c]) - 1) :
        Range(recs) = Range(Take(RemoteNewestFirst(c), k))

\* recs holds the oldest n - k of chat c's n remote messages, 0 < k < n
HoldsOldestPart(recs, c) ==
    \E k \in 1..(Len(remote[c]) - 1) :
        Range(recs) = Range(Take(RemoteOldestFirst(c), Len(remote[c]) - k))

\* the messages of chat c in the returned sequence
ReturnedOf(c) == {m \in Range(last.ret) : m.chat_id = c}

\* C3: when the store holds only the newest k of a chat's n remote messages
\* and the remote is unchanged, one unfiltered call returns all n and leaves
\* the store holding all n
C3_BackwardGapFillComplete ==
    (last.op = "get" /\ last.args = NoArgs
        /\ HoldsNewestPart(last.pre[last.chat], last.chat)) =>
    /\ ~last.err
    /\ ReturnedOf(last.chat) = RemoteSet(last.chat)
    /\ Range(store[last.chat]) = RemoteSet(last.chat)

\* C4: when the newest remote date of a chat exceeds the store's newest
\* date, a call served from the cache leaves every remote message dated
\* after the store's former newest date in the store; and when the store
\* held the oldest n - k messages, all older than the newest remote one, an
\* unfiltered call returns all n, k more than were stored
C4_ForwardGapFill ==
    /\ (Returned /\ last.path[1] = "cache" /\ last.pre[last.chat] # <<>>) =>
          \A m \in RemoteSet(last.chat) :
              m.date > MaxDateOf(last.pre[last.chat]) => m \in Range(store[last.chat])
    /\ (last.op = "get" /\ last.args = NoArgs
           /\ HoldsOldestPart(last.pre[last.chat], last.chat)
           /\ NewestRemoteDate(last.chat) > MaxDateOf(last.pre[last.chat])) =>
          (~last.err /\ ReturnedOf(last.chat) = RemoteSet(last.chat))

\* C5: every message a call with min_date and / or max_date returns has
\* min_date <= date <= max_date
C5_DateWindow ==
    Returned =>
        \A m \in Range(last.ret) :
            /\ (last.args.min_date # NoneVal => m.date >= last.args.min_date)
            /\ (last.args.max_date # NoneVal => m.date <= last.args.max_date)

\* the smaller of a limit (NoneVal: none) and n
Capped(limit, n) == IF limit # NoneVal /\ limit < n THEN limit ELSE n

\* C6: a call for a live id with a predecessor, without date window, returns
\* the union of the two ids' messages, no (chat_id, id) twice, two messages
\* of equal id and different chat both kept, newest first, cut to the limit
C6_MergeByCompositeKey ==
    (last.op = "get" /\ Overlaid /\ ~last.args.reverse
        /\ last.args.min_date = NoneVal /\ last.args.max_date = NoneVal) =>
    /\ ~last.err
    /\ NoDuplicateKeys(last.ret)
    /\ IsNewestFirst(last.ret)
    /\ Range(last.ret) \subseteq RemoteSet(OldChat) \cup RemoteSet(NewChat)
    /\ Len(last.ret) = Capped(last.args.limit, Len(remote[OldChat]) + Len(remote[NewChat]))

\* what the store adapter answers for a chat holding recs: the range summary
\* (MongoDB only) and the unfiltered store query
StoreView(recs) ==
    IF mongo_enabled
    THEN [range |-> _get_message_range(recs),
          query |-> _load_messages_from_mongo(recs, NoneVal, NoneVal, NoneVal, NoneVal)]
    ELSE [range |-> NoneVal, query |-> _load_messages_to_json(recs)]

\* C7: persisting a page whose messages are all in the store already leaves
\* the range summary and the store query as they were, same records in the
\* same order (a call served directly from the gateway persists the page it
\* returns)
C7_UpsertIdempotent ==
    (Returned /\ last.path = <<"direct">> /\ last.ret # <<>>
        /\ Range(last.ret) \subseteq Range(last.pre[last.chat])) =>
    StoreView(store[last.chat]) = StoreView(last.pre[last.chat])

\* the chat ids the latest call served: the chat itself and its predecessor
Served == IF Overlaid THEN {last.chat, MigratedFrom(migration_map.map, last.chat)}
          ELSE {last.chat}

\* when the latest call started, the store query of chat c yielded the whole
\* remote history of c, newest first
Synchronised(c) ==
    /\ Range(StoreView(last.pre[c]).query) = RemoteSet(c)
    /\ Len(StoreView(last.pre[c]).query) = Len(remote[c])
    /\ IsNewestFirst(StoreView(last.pre[c]).query)

ServedFromCache(c) ==
    \/ c = last.chat /\ Len(last.path) >= 1 /\ last.path[1] = "cache"
    \/ c # last.chat /\ Len(last.path) = 2 /\ last.path[2] = "cache"

\* C9: a call that serves a chat from the cache consumes from the gateway's
\* message iterations of that chat only messages that were not in the store
\* when the call started
C9_NoRedownload ==
    last.op = "get" =>
        \A c \in Chats :
            ServedFromCache(c) =>
                PulledFrom(last.iters, c) \cap Range(last.pre[c]) = {}

\* the messages of an iteration that were consumed and not kept
Triggers(it) == Range(it.pulled) \ Range(it.kept)

\* C10: an iteration with min_date consumes at most one message more than
\* the messages of its range dated min_date or later, and the message that
\* stops it is neither returned nor written to the store
C10_EarlyBreak ==
    last.op = "get" =>
        \A i \in 1..Len(last.iters) :
            last.iters[i].min_date # NoneVal =>
                /\ Len(last.iters[i].pulled) <=
                      Cardinality({k \in 1..Len(last.iters[i].avail) :
                          last.iters[i].avail[k].date >= last.iters[i].min_date}) + 1
                /\ \A m \in Triggers(last.iters[i]) :
                      /\ m \notin Range(last.ret)
                      /\ m \in Range(store[m.chat_id]) => m \in Range(last.pre[m.chat_id])

\* C10 witness: an iteration with min_date stopped at a message dated before
\* min_date and left at least one more message of its range unconsumed
C10_Witness ==
    /\ last.op = "get"
    /\ \E i \in 1..Len(last.iters) :
          /\ last.iters[i].min_date # NoneVal
          /\ Triggers(last.iters[i]) # {}
          /\ last.iters[i].kept # <<>>
          /\ Len(last.iters[i].pulled) < Len(last.iters[i].avail)

\* ------------------------------------------- an unchanging remote history
\* the histories the live chat can have: dates never decrease with the id
Histories ==
    {h \in UNION {[1..n -> Dates] : n \in 1..MaxMsgs} :
        /\ h[1] = 1
        /\ \A i \in 1..(Len(h) - 1) : h[i + 1] >= h[i] /\ h[i + 1] <= h[i] + 1}

\* as Init, the live chat holding any of its histories from the start
InitStatic ==
    /\ mongo_enabled \in BOOLEAN
    /\ migrated \in BOOLEAN
    /\ \E h \in Histories :
          remote = [c \in Chats |-> IF c = OldChat THEN [i \in 1..MaxOld |-> i] ELSE h]
    /\ store = [c \in Chats |-> <<>>]
    /\ fileExists = [c \in Chats |-> FALSE]
    /\ dialogs = NoDialogs
    /\ newest_message_call_count = 0
    /\ migration_map = NoMigrationMap
    /\ entitiesFile = [exists |-> FALSE, entities |-> {}]
    /\ last = Idle
    /\ twin = NoTwin
    /\ InitSession
    /\ InitSide

\* paging calls and clears, in one process or several, nothing being posted
NextStatic ==
    \/ \E c \in Chats, a \in PagingArgs : GetMessages(c, a)
    \/ Return
    \/ \E c \in Chats : ClearCache(c)
    \/ Restart

SpecStatic == InitStatic /\ [][NextStatic]_vars

\* the message ids of a sequence, in its order
Ids(s) == [i \in 1..Len(s) |-> s[i].id]

\* what get_raw_messages(chat, limit=N, ignore_cache=True) returns now
Fresh(c, N) ==
    get_raw_messages(Ctx0(FALSE), c, TRUE, N, NoneVal, NoneVal, NoneVal, FALSE).out

\* C11: with the remote history unchanged, a call with limit N served from
\* the cache returns, and returns as many messages with the same sequence of
\* ids as the same call with ignore_cache=True
C11_CachedEqualsFresh ==
    (last.op = "get" /\ ~last.args.ignore_cache /\ last.args.limit # NoneVal
        /\ last.path # <<>> /\ \A i \in 1..Len(last.path) : last.path[i] = "cache") =>
    /\ ~last.err
    /\ Ids(last.ret) = Ids(Fresh(last.chat, last.args.limit))

\* --------------------------------------------- two engines, one per backend
\* the call context of the second engine: the other backend, its own store
\* and its own in-process fields, the same gateway
CtxTwin ==
    [mongo_enabled |-> ~mongo_enabled, store |-> twin.store, reversed |-> FALSE,
     fileExists |-> twin.fileExists, dialogs |-> twin.dialogs,
     count |-> twin.count, migration_map |-> twin.migration_map,
     entitiesFile |-> twin.entitiesFile,
     err |-> FALSE, out |-> <<>>, val |-> NoneVal, path |-> <<>>,
     iters |-> <<>>, nTotal |-> 0, nProbe |-> 0, nDialogs |-> 0,
     fault |-> NoFault, faulted |-> 0, lost |-> <<>>]

\* what the caller of the second engine saw
TwinObservation(op, c, a, s) ==
    [op |-> op, chat |-> c, args |-> a,
     err |-> s.err, ret |-> s.out, path |-> s.path, iters |-> s.iters,
     nTotal |-> s.nTotal, nProbe |-> s.nProbe, nDialogs |-> s.nDialogs,
     faulted |-> s.faulted, lost |-> s.lost,
     pre |-> twin.store, preFile |-> twin.fileExists,
     preDialogs |-> twin.dialogs.loaded]

InitPair ==
    /\ mongo_enabled = TRUE
    /\ migrated \in BOOLEAN
    /\ \E h \in Histories :
          remote = [c \in Chats |-> IF c = OldChat THEN [i \in 1..MaxOld |-> i] ELSE h]
    /\ store = [c \in Chats |-> <<>>]
    /\ fileExists = [c \in Chats |-> FALSE]
    /\ dialogs = NoDialogs
    /\ newest_message_call_count = 0
    /\ migration_map = NoMigrationMap
    /\ entitiesFile = [exists |-> FALSE, entities |-> {}]
    /\ last = Idle
    /\ twin = NoTwin
    /\ InitSession
    /\ InitSide

\* the same get_raw_messages call made on both engines
GetMessagesBoth(c, a) ==
    /\ last.op = "idle"
    /\ \E reversed \in WriteOrders :
       \E s \in {get_raw_messages(Ctx0(reversed), c, a.ignore_cache, a.limit, a.offset,
                                 a.min_date, a.max_date, a.reverse)} :
       \E u \in {get_raw_messages(CtxTwin, c, a.ignore_cache, a.limit, a.offset,
                                 a.min_date, a.max_date, a.reverse)} :
          /\ store' = s.store
          /\ fileExists' = s.fileExists
          /\ dialogs' = s.dialogs
          /\ newest_message_call_count' = s.count
          /\ migration_map' = s.migration_map
          /\ entitiesFile' = s.entitiesFile
          /\ last' = Observation("get", c, a, s)
          /\ twin' = [store |-> u.store, fileExists |-> u.fileExists,
                      dialogs |-> u.dialogs, count |-> u.count,
                      migration_map |-> u.migration_map,
                      entitiesFile |-> u.entitiesFile,
                      last |-> TwinObservation("get", c, a, u)]
    /\ UNCHANGED <<mongo_enabled, migrated, remote>>
    /\ UNCHANGED <<session, side>>

ReturnBoth ==
    /\ last.op # "idle"
    /\ last' = Idle
    /\ twin' = [twin EXCEPT !.last = Idle]
    /\ UNCHANGED <<mongo_enabled, migrated, remote, store, fileExists, dialogs,
                   newest_message_call_count, migration_map, entitiesFile>>
    /\ UNCHANGED <<session, side>>

\* the same clear_cache call made on both engines
ClearCacheBoth(c) ==
    /\ last.op = "idle"
    /\ store' = [store EXCEPT ![c] = <<>>]
    /\ fileExists' = [fileExists EXCEPT ![c] = FALSE]
    /\ twin' = [twin EXCEPT !.store[c] = <<>>, !.fileExists[c] = FALSE]
    /\ UNCHANGED <<mongo_enabled, migrated, remote, dialogs, newest_message_call_count,
                   migration_map, entitiesFile, last>>
    /\ UNCHANGED <<session, side>>

NextPair ==
    \/ \E c \in Chats, a \in PagingArgs : GetMessagesBoth(c, a)
    \/ ReturnBoth
    \/ \E c \in Chats : ClearCacheBoth(c)

SpecPair == InitPair /\ [][NextPair]_vars

\* rangeSummary(chat) as the backend of context s answers it: the JSON
\* backend raises NotImplementedError
RangeSummary(s, c) ==
    IF s.mongo_enabled
    THEN [err |-> FALSE, range |-> _get_message_range(s.store[c])]
    ELSE [err |-> TRUE, range |-> _get_message_range(<<>>)]

\* C12: after the same calls, the engine on the JSON backend and the engine
\* on MongoDB return the same id sequences, give the same hasAny and
\* rangeSummary answers, and fail together or not at all
C12_BackendsAgree ==
    last.op = "get" =>
        /\ last.err = twin.last.err
        /\ Ids(last.ret) = Ids(twin.last.ret)
        /\ \A c \in Chats :
              /\ _has_cached_messages(Ctx0(FALSE), c) = _has_cached_messages(CtxTwin, c)
              /\ RangeSummary(Ctx0(FALSE), c) = RangeSummary(CtxTwin, c)

\* the part of C12 about the calls alone
C12_CallsAgree ==
    /\ last.err = twin.last.err
    /\ Ids(last.ret) = Ids(twin.last.ret)

\* the part of C12 about hasAny alone
C12_HasAnyAgree ==
    \A c \in Chats :
        _has_cached_messages(Ctx0(FALSE), c) = _has_cached_messages(CtxTwin, c)

\* ------------------------------------------------ chat listing, migrations
\* get_chats(ignore_cache=force)
GetChats(force) ==
    /\ last.op = "idle"
    /\ \E s \in {get_chats(Ctx0(FALSE), force)} :
          /\ dialogs' = s.dialogs
          /\ migration_map' = s.migration_map
          /\ entitiesFile' = s.entitiesFile
          /\ last' = Observation("chats", NoneVal, [NoArgs EXCEPT !.ignore_cache = force], s)
    /\ UNCHANGED <<mongo_enabled, migrated, remote, store, fileExists,
                   newest_message_call_count>>
    /\ UNCHANGED others

\* get_raw_dialogs(invalidate_cache=invalidate)
GetRawDialogs(invalidate) ==
    /\ last.op = "idle"
    /\ \E s \in {get_raw_dialogs(Ctx0(FALSE), invalidate)} :
          /\ dialogs' = s.dialogs
          /\ entitiesFile' = s.entitiesFile
          /\ last' = Observation("dialogs", NoneVal,
                                 [NoArgs EXCEPT !.ignore_cache = invalidate], s)
    /\ UNCHANGED <<mongo_enabled, migrated, remote, store, fileExists,
                   newest_message_call_count, migration_map>>
    /\ UNCHANGED others

\* the group is upgraded at the remote: its entity now carries migrated_to
RemoteMigration ==
    /\ last.op = "idle"
    /\ ~migrated
    /\ migrated' = TRUE
    /\ UNCHANGED <<mongo_enabled, remote, store, fileExists, dialogs,
                   newest_message_call_count, migration_map, entitiesFile, last>>
    /\ UNCHANGED others

\* the default call and the plain paged call
PlainArgs == {a \in PagingArgs : a.offset = NoneVal /\ ~a.ignore_cache}

NextChats ==
    \/ \E force \in BOOLEAN : GetChats(force)
    \/ \E invalidate \in BOOLEAN : GetRawDialogs(invalidate)
    \/ \E c \in Chats, a \in PlainArgs : GetMessages(c, a)
    \/ Return
    \/ RemoteMigration
    \/ \E d \in Dates : RemoteArrival(d)
    \/ Restart

SpecChats == Init /\ [][NextChats]_vars

\* C13: a get_chats(ignore_cache=True) that obtained a new snapshot from
\* the gateway leaves the migration map equal to the map built from that
\* snapshot
C13_MapRebuiltOnRefresh ==
    (last.op = "chats" /\ last.args.ignore_cache /\ last.nDialogs > 0) =>
        /\ migration_map.loaded
        /\ migration_map.map = BuildMigrationMap(dialogs.entities)

\* the chat records the gateway's dialog list stands for at this moment
ReflectsGateway(chats) ==
    \A i \in 1..Len(chats) : chats[i].migrated_to = MigratedTo(RemoteMigrations, chats[i].id)

\* C14: get_chats without refresh and with a snapshot held makes no dialog
\* listing; get_chats with refresh, or with neither a snapshot nor the
\* entities file, makes exactly one, writes the entities file, replaces the
\* snapshot and returns chats as the gateway lists them now
C14_ListChats ==
    last.op = "chats" =>
        /\ (~last.args.ignore_cache /\ last.preDialogs) => last.nDialogs = 0
        /\ (last.args.ignore_cache \/ last.nDialogs > 0) =>
              /\ last.nDialogs = 1
              /\ entitiesFile = [exists |-> TRUE, entities |-> RemoteMigrations]
              /\ dialogs.loaded
              /\ dialogs.entities = RemoteMigrations
              /\ \A c \in Chats : dialogs.date[c] = NewestRemoteDate(c)
              /\ ReflectsGateway(last.ret)

\* C15: whenever the dialog snapshot is held, the newest-message date it
\* gives for a chat is the date the single-message probe would return now
C15_ProbersAgree ==
    \A c \in Chats :
        dialogs.loaded =>
            DialogDate(Ctx0(FALSE), c).val = ProbeNewest(Ctx0(FALSE), c).val

\* ----------------------------------------------------------- gateway faults
FaultKinds == {"dialogs", "total", "probe", "iter"}
Faults ==
    {f \in [kind : FaultKinds, after : 0..MaxFaultAfter, at : 0..MaxFaultAt] :
        f.kind # "iter" => (f.after = 0 /\ f.at = 0)}

\* calls by limit, cached or not
FaultArgs == {a \in PagingArgs : a.offset = NoneVal}

\* calls for the whole history, cached or not
WholeArgs == {a \in FaultArgs : a.limit = NoneVal}

\* get_raw_messages while the gateway raises on the requests of fault f
GetMessagesFault(c, a, f) ==
    /\ last.op = "idle"
    \* explored up to the call that reaches the threshold and finds the
    \* dialog listing failing; the counter grows without bound after it
    /\ newest_message_call_count < NEWEST_MESSAGE_CHECK_THRESHOLD
    /\ \E reversed \in WriteOrders :
       \E s \in {get_raw_messages(CtxFault(reversed, f), c, a.ignore_cache, a.limit,
                                 a.offset, a.min_date, a.max_date, a.reverse)} :
          /\ store' = s.store
          /\ fileExists' = s.fileExists
          /\ dialogs' = s.dialogs
          /\ newest_message_call_count' = s.count
          /\ migration_map' = s.migration_map
          /\ entitiesFile' = s.entitiesFile
          /\ last' = Observation("get", c, a, s)
    /\ UNCHANGED <<mongo_enabled, migrated, remote>>
    /\ UNCHANGED others

NextFaults ==
    \/ \E c \in Chats, a \in FaultArgs : GetMessages(c, a)
    \/ \E c \in Chats, a \in WholeArgs, f \in Faults : GetMessagesFault(c, a, f)
    \/ Return
    \/ \E d \in Dates : RemoteArrival(d)
    \/ Restart

SpecFaults == Init /\ [][NextFaults]_vars

\* C16: a get_raw_messages call during which a gateway request raised ends
\* in an exception
C16_GatewayErrorSurfaced ==
    (last.op = "get" /\ last.faulted > 0) => last.err

\* C16 for the freshness probe alone
C16_ProbeErrorSurfaced ==
    (last.op = "get" /\ last.faulted > 0 /\ last.nProbe > 0) => last.err

\* the messages the completed iterations of the latest call kept for chat c
RECURSIVE KeptFor(_, _)
KeptFor(its, c) ==
    IF its = <<>> THEN {}
    ELSE (IF its[1].chat = c THEN Range(its[1].kept) ELSE {}) \cup KeptFor(Tail(its), c)

\* C17: the store holds only messages the gateway delivered for that chat;
\* a call leaves in it what was there before and what its completed
\* iterations kept, nothing of an aborted one; a call whose first fetch is
\* aborted leaves the store and the files as they were
C17_FailedFetchKeepsStore ==
    /\ \A c \in Chats : Range(store[c]) \subseteq RemoteSet(c)
    /\ last.op = "get" =>
          \A c \in Chats :
              Range(store[c]) = Range(last.pre[c]) \cup KeptFor(last.iters, c)
    /\ (last.op = "get" /\ last.err /\ last.iters = <<>>) =>
          (store = last.pre /\ fileExists = last.preFile)

\* an iteration raised after it had delivered a message the store did not
\* hold, and the store is as before
C17_Witness ==
    /\ last.op = "get" /\ last.err /\ last.iters = <<>>
    /\ \E i \in 1..Len(last.lost) : last.lost[i] \notin Range(last.pre[last.chat])
    /\ store = last.pre

\* ------------------------------------------- authenticate_telethon_client
\* Processes on a POSIX system (fcntl is present) call
\* authenticate_telethon_client for the same session name.  pc[p]:
\*   "idle"      not in the call
\*   "lock"      about to call fcntl.flock(LOCK_EX | LOCK_NB)
\*   "sleep"     in asyncio.sleep(lock_poll_sec)
\*   "connect"   past the locking block, about to call client.connect()
\*   "authorize" connected: is_user_authorized / send_code_request / sign_in
\*   "returned"  the call returned the client
\*   "raised"    the call raised

\* the exceptions the connect/authorize section ends with: a failed
\* authorization, SQLite's "database is locked" / "is in use", a
\* TimeoutError of the connection, another connection error
SectionErrors == {"auth", "locked", "timeout", "network"}

\* l.169-175: the errors after which the session file is kept
lock_like(e) == e \in {"locked", "timeout"}

\* another process has the session database open
InUseByOther(p) ==
    \E q \in Procs \ {p} : pc[q] \in {"authorize", "returned"}

\* l.63-77: the client object is made on the session path, which creates
\* the session file; the lock file is opened; start = time.monotonic()
Begin(p) ==
    /\ pc[p] = "idle"
    /\ pc' = [pc EXCEPT ![p] = "lock"]
    /\ session_file' = TRUE
    /\ waited' = [waited EXCEPT ![p] = 0]
    /\ lock_acquired' = [lock_acquired EXCEPT ![p] = FALSE]
    /\ timed_out' = [timed_out EXCEPT ![p] = FALSE]
    /\ exc' = [exc EXCEPT ![p] = "none"]
    /\ removed' = [removed EXCEPT ![p] = FALSE]
    /\ UNCHANGED lock_holder
    /\ UNCHANGED cache

\* l.79-99: one round of the polling loop.  The lock is taken when it is
\* free.  When it is busy and the wait has reached lock_timeout_sec,
\* TimeoutError is raised inside the try of l.76 and caught by its
\* "except Exception" (l.97): a warning is logged and the call goes on
\* without the lock.  Otherwise the process sleeps.
TryLock(p) ==
    /\ pc[p] = "lock"
    /\ IF lock_holder = NoProc
       THEN /\ lock_holder' = p
            /\ lock_acquired' = [lock_acquired EXCEPT ![p] = TRUE]
            /\ pc' = [pc EXCEPT ![p] = "connect"]
            /\ UNCHANGED timed_out
       ELSE /\ UNCHANGED <<lock_holder, lock_acquired>>
            /\ IF waited[p] >= LockTimeout
               THEN /\ timed_out' = [timed_out EXCEPT ![p] = TRUE]
                    /\ pc' = [pc EXCEPT ![p] = "connect"]
               ELSE /\ UNCHANGED timed_out
                    /\ pc' = [pc EXCEPT ![p] = "sleep"]
    /\ UNCHANGED <<waited, exc, removed, session_file>>
    /\ UNCHANGED cache

\* l.93: await asyncio.sleep(lock_poll_sec)
Sleep(p) ==
    /\ pc[p] = "sleep"
    /\ waited' = [waited EXCEPT ![p] = @ + LockPoll]
    /\ pc' = [pc EXCEPT ![p] = "lock"]
    /\ UNCHANGED <<lock_acquired, timed_out, exc, removed, lock_holder, session_file>>
    /\ UNCHANGED cache

\* l.101-103: await client.connect() begins
Connect(p) ==
    /\ pc[p] = "connect"
    /\ pc' = [pc EXCEPT ![p] = "authorize"]
    /\ UNCHANGED <<lock_acquired, waited, timed_out, exc, removed, lock_holder,
                   session_file>>
    /\ UNCHANGED cache

\* l.184-191: finally, the lock is released if this call took it
Released(p) == IF lock_acquired[p] /\ lock_holder = p THEN NoProc ELSE lock_holder

\* l.106-108, l.160-162: the client is authorized and returned
ReturnClient(p) ==
    /\ pc[p] = "authorize"
    /\ pc' = [pc EXCEPT ![p] = "returned"]
    /\ lock_holder' = Released(p)
    /\ UNCHANGED <<lock_acquired, waited, timed_out, exc, removed, session_file>>
    /\ UNCHANGED cache

\* l.166-183: the section ends with exception e; the session file is
\* removed unless the error is lock-like; the exception is raised again
Fail(p, e) ==
    /\ pc[p] = "authorize"
    /\ e = "locked" => InUseByOther(p)
    /\ pc' = [pc EXCEPT ![p] = "raised"]
    /\ exc' = [exc EXCEPT ![p] = e]
    /\ removed' = [removed EXCEPT ![p] = session_file /\ ~lock_like(e)]
    /\ session_file' = (session_file /\ lock_like(e))
    /\ lock_holder' = Released(p)
    /\ UNCHANGED <<lock_acquired, waited, timed_out>>
    /\ UNCHANGED cache

\* the caller is done with the client or with the exception; the process
\* may call again
Leave(p) ==
    /\ pc[p] \in {"returned", "raised"}
    /\ pc' = [pc EXCEPT ![p] = "idle"]
    /\ UNCHANGED <<lock_acquired, waited, timed_out, exc, removed, lock_holder,
                   session_file>>
    /\ UNCHANGED cache

NextSession ==
    \E p \in Procs :
        \/ Begin(p)
        \/ TryLock(p)
        \/ Sleep(p)
        \/ Connect(p)
        \/ ReturnClient(p)
        \/ \E e \in SectionErrors : Fail(p, e)
        \/ Leave(p)

SpecSession == Init /\ [][NextSession]_vars

\* process p is inside the connect/authorize section
InSection(p) == pc[p] \in {"connect", "authorize"}

\* C18: the wait for the lock is bounded by lock_timeout_sec plus one poll,
\* and a call whose wait timed out raises without ever entering the
\* connect/authorize section
C18_TimeoutFails ==
    \A p \in Procs :
        /\ waited[p] <= LockTimeout + LockPoll
        /\ timed_out[p] => pc[p] \in {"raised", "idle"}

\* C19: no two processes are inside the connect/authorize section at the
\* same time, and a process inside it holds the session lock
C19_MutualExclusion ==
    /\ \A p, q \in Procs : (p # q /\ InSection(p)) => ~InSection(q)
    /\ \A p \in Procs : InSection(p) => lock_holder = p

\* C20: a call that unlinked the session file had not timed out on the lock
\* and did not end with a lock-like error
C20_SessionFileKept ==
    \A p \in Procs : removed[p] => (~timed_out[p] /\ ~lock_like(exc[p]))

\* C20, the deletion read strictly: only after a failed authorization
C20_OnlyAuthFailure ==
    \A p \in Procs : removed[p] => exc[p] = "auth"

\* the stored messages of chat c dated within [min_date, max_date]
StoredInWindow(c, min_date, max_date) ==
    {m \in Range(store[c]) :
        /\ m.date >= min_date
        /\ max_date = NoneVal \/ m.date <= max_date}

\* C23: a call with min_date and without limit or offset that is served
\* from the cache for a chat without predecessor returns every message of
\* the window that the store holds when the call returns
C23_ReturnsUpToDateRange ==
    (/\ Returned /\ ~Overlaid
     /\ last.path = <<"cache">>
     /\ last.args.min_date # NoneVal
     /\ last.args.limit = NoneVal /\ last.args.offset = NoneVal) =>
        StoredInWindow(last.chat, last.args.min_date, last.args.max_date)
            \subseteq Range(last.ret)

\* ------------------------------------------------------ the freshness prober
\* a chat id that is not among the account's dialogs and has no message
StrangerChat == 300
ProbeChats == Chats \cup {StrangerChat}

\* the counter is explored up to this value
MaxProbeCalls == 6

\* one direct call of _get_newest_message_date(chat_id)
NewestMessageDate(c) ==
    /\ last.op = "idle"
    /\ newest_message_call_count < MaxProbeCalls
    /\ \E s \in {_get_newest_message_date(Ctx0(FALSE), c)} :
          /\ dialogs' = s.dialogs
          /\ newest_message_call_count' = s.count
          /\ entitiesFile' = s.entitiesFile
          /\ last' = Observation("newest", c, NoArgs, s)
    /\ UNCHANGED <<mongo_enabled, migrated, remote, store, fileExists, migration_map>>
    /\ UNCHANGED others

\* one process after another: the prober called directly, between any
\* other operations of the cache
NextProber ==
    \/ \E c \in ProbeChats : NewestMessageDate(c)
    \/ \E c \in Chats, a \in PlainArgs : GetMessages(c, a)
    \/ \E invalidate \in BOOLEAN : GetRawDialogs(invalidate)
    \/ \E c \in Chats : ClearCache(c)
    \/ Return
    \/ \E d \in Dates : RemoteArrival(d)
    \/ Restart

SpecProber == Init /\ [][NextProber]_vars

\* C24: once the snapshot of the dialogs is held it stays held for the
\* life of the process, no operation lists the dialogs again, and every
\* call of the prober, for any chat id, makes no single-message fetch
C24_SnapshotPermanent ==
    last.preDialogs =>
        /\ dialogs.loaded
        /\ last.nDialogs = 0
        /\ last.op = "newest" => last.nProbe = 0

\* C24, the prober alone: with the snapshot held a call of the prober
\* reaches the gateway neither for a message nor for the dialog list
C24_NoFetchOnceLoaded ==
    (last.op = "newest" /\ last.preDialogs) =>
        last.nProbe = 0 /\ last.nDialogs = 0

\* C24, the other operations: an operation that starts with the snapshot
\* held does not list the dialogs again
C24_ListedOnce == last.preDialogs => last.nDialogs = 0

\* C25: without a snapshot, a call of the prober that leaves the counter
\* below the threshold made exactly one single-message fetch and no dialog
\* listing; the call that brings the counter to the threshold is the one
\* that lists the dialogs, and it is the 5th
C25_ThresholdSwitch ==
    (last.op = "newest" /\ ~last.preDialogs) =>
        /\ newest_message_call_count >= 1
        /\ newest_message_call_count <= NEWEST_MESSAGE_CHECK_THRESHOLD
        /\ newest_message_call_count < NEWEST_MESSAGE_CHECK_THRESHOLD =>
              /\ last.nProbe = 1
              /\ last.nDialogs = 0
              /\ ~dialogs.loaded
        /\ newest_message_call_count = NEWEST_MESSAGE_CHECK_THRESHOLD =>
              /\ last.nDialogs = 1
              /\ dialogs.loaded
        /\ NEWEST_MESSAGE_CHECK_THRESHOLD = 5

\* the 5th call without a snapshot has just listed the dialogs
C25_Witness ==
    /\ last.op = "newest" /\ ~last.preDialogs
    /\ newest_message_call_count = NEWEST_MESSAGE_CHECK_THRESHOLD
    /\ last.nDialogs = 1

\* a call below the threshold has just made its single fetch
C25_WitnessBelow ==
    /\ last.op = "newest" /\ ~last.preDialogs
    /\ newest_message_call_count = NEWEST_MESSAGE_CHECK_THRESHOLD - 1
    /\ last.nProbe = 1

\* ---------------------------------------------- init_migration_map(entities)
MaxEntities == 3
MaxChannels == 2
MaxBuilds == 2

EntityIds == 1..MaxEntities
ChannelIds == {10 + k : k \in 1..MaxChannels}

\* entity.migrated_to: absent, present without channel_id, or complete
Pointers ==
    {[present |-> FALSE, channel_id |-> NoneVal],
     [present |-> TRUE, channel_id |-> NoneVal]}
    \cup {[present |-> TRUE, channel_id |-> k] : k \in ChannelIds}

Entity == [id : EntityIds, migrated_to : Pointers]

\* "if migrated_to and hasattr(migrated_to, 'channel_id')"
HasChannelId(entity) ==
    entity.migrated_to.present /\ entity.migrated_to.channel_id # NoneVal

\* the entity lists a dialog listing can give: one entity per id, and no
\* two groups upgraded to the same channel
Snapshots ==
    {es \in UNION {[1..n -> Entity] : n \in 0..MaxEntities} :
        \A i, j \in 1..Len(es) :
            i # j =>
                /\ es[i].id # es[j].id
                /\ (HasChannelId(es[i]) /\ HasChannelId(es[j])) =>
                      es[i].migrated_to.channel_id # es[j].migrated_to.channel_id}

\* "d[key] = value"
DictSet(d, key, value) ==
    [k \in DOMAIN d \cup {key} |-> IF k = key THEN value ELSE d[k]]

\* one round of the loop with the test for channel_id left out
AddMigrationAnyPointer(b, entity) ==
    IF entity.migrated_to.present
    THEN [b EXCEPT !.map = DictSet(@, entity.migrated_to.channel_id, entity.id),
                   !.ids = @ \cup {entity.id}]
    ELSE b

\* one round of "for entity in entities"
AddMigration(b, entity) ==
    IF HasChannelId(entity)
    THEN [b EXCEPT !.map = DictSet(@, entity.migrated_to.channel_id, entity.id),
                   !.ids = @ \cup {entity.id}]
    ELSE b

RECURSIVE MigrationLoop(_, _)
MigrationLoop(b, es) ==
    IF es = <<>> THEN b
    ELSE MigrationLoop(AddMigration(b, Head(es)), Tail(es))

\* init_migration_map(entities): nothing is done when the map is held
InitMigrationMap ==
    /\ builder.calls < MaxBuilds
    /\ builder' =
          IF builder.loaded
          THEN [builder EXCEPT !.calls = @ + 1]
          ELSE [MigrationLoop([builder EXCEPT !.loaded = TRUE, !.map = NoDict,
                                              !.ids = {}],
                              builder.entities)
                    EXCEPT !.calls = @ + 1]
    /\ UNCHANGED <<engine, session, pinned, lifecycle, downloader, tasks>>

\* a new process is given the same entities; what the former one built is
\* remembered for comparison
RestartBuilder ==
    /\ builder.loaded
    /\ ~builder.prev.held
    /\ builder' = [builder EXCEPT !.loaded = FALSE, !.map = NoDict, !.ids = {},
                                  !.calls = 0,
                                  !.prev = [held |-> TRUE, map |-> builder.map,
                                            ids |-> builder.ids]]
    /\ UNCHANGED <<engine, session, pinned, lifecycle, downloader, tasks>>

InitBuilder ==
    /\ mongo_enabled = FALSE
    /\ migrated = FALSE
    /\ remote = [c \in Chats |-> <<>>]
    /\ store = [c \in Chats |-> <<>>]
    /\ fileExists = [c \in Chats |-> FALSE]
    /\ dialogs = NoDialogs
    /\ newest_message_call_count = 0
    /\ migration_map = NoMigrationMap
    /\ entitiesFile = [exists |-> FALSE, entities |-> {}]
    /\ last = Idle
    /\ twin = NoTwin
    /\ InitSession
    /\ pinned = {}
    /\ InitLifecycle
    /\ downloader = NoDownload
    /\ tasks = [t \in Tasks |-> IdleTask]
    /\ \E es \in Snapshots : builder = [NoBuilder EXCEPT !.entities = es]

NextBuilder ==
    \/ InitMigrationMap
    \/ RestartBuilder

SpecBuilder == InitBuilder /\ [][NextBuilder]_vars

\* the values of a dict
DictValues(d) == {d[k] : k \in DOMAIN d}

\* C26: once init_migration_map has run, every entity with a migrated_to
\* that has a channel_id gives map[new_id] = old_id and has old_id among
\* the migrated ids; no other entity gives a key; the migrated ids are the
\* values of the map; and a build from the same entities in a new process
\* gives the same map
C26_BuildMigrationMap ==
    builder.loaded =>
        /\ \A i \in 1..Len(builder.entities) :
              HasChannelId(builder.entities[i]) =>
                  /\ builder.entities[i].migrated_to.channel_id \in DOMAIN builder.map
                  /\ builder.map[builder.entities[i].migrated_to.channel_id]
                        = builder.entities[i].id
                  /\ builder.entities[i].id \in builder.ids
        /\ \A k \in DOMAIN builder.map :
              \E i \in 1..Len(builder.entities) :
                  /\ HasChannelId(builder.entities[i])
                  /\ builder.entities[i].migrated_to.channel_id = k
        /\ builder.ids = DictValues(builder.map)
        /\ builder.prev.held =>
              builder.map = builder.prev.map /\ builder.ids = builder.prev.ids

\* a second build, from entities of all three kinds
C26_Witness ==
    /\ builder.loaded /\ builder.prev.held
    /\ builder.map # NoDict
    /\ \E i \in 1..Len(builder.entities) : ~builder.entities[i].migrated_to.present
    /\ \E i \in 1..Len(builder.entities) :
          /\ builder.entities[i].migrated_to.present
          /\ ~HasChannelId(builder.entities[i])

\* ------------------------------------------------- edited and bad records
\* an optional attribute of a remote message is set or cleared (the message
\* is pinned or unpinned)
RemoteEdit(c, i) ==
    /\ last.op = "idle"
    /\ i \in 1..Len(remote[c])
    /\ pinned' = IF <<c, i>> \in pinned THEN pinned \ {<<c, i>>}
                 ELSE pinned \cup {<<c, i>>}
    /\ UNCHANGED <<mongo_enabled, migrated, remote, store, fileExists, dialogs,
                   newest_message_call_count, migration_map, entitiesFile, last,
                   twin, session, builder, lifecycle, downloader, tasks>>

\* the default call and the call that fetches the whole history again
RefetchArgs == {a \in PagingArgs : a.limit = NoneVal /\ a.offset = NoneVal}

NextEdits ==
    \/ \E c \in Chats, a \in RefetchArgs : GetMessages(c, a)
    \/ Return
    \/ \E c \in Chats, i \in 1..MaxMsgs : RemoteEdit(c, i)

SpecEdits == Init /\ [][NextEdits]_vars

\* the message m was stored before the latest call with another content
StoredDifferently(m) ==
    \E i \in 1..Len(last.pre[m.chat_id]) :
        /\ last.pre[m.chat_id][i].id = m.id
        /\ last.pre[m.chat_id][i] # m

\* C28: when a call fetched and saved a message that was stored with
\* another content, the record stored under its key afterwards equals the
\* version just fetched, attributes that are no longer set being absent
C28_LastWriteWins ==
    (last.op = "get" /\ ~last.err) =>
        \A k \in 1..Len(last.iters) :
            \A m \in Range(last.iters[k].kept) :
                StoredDifferently(m) =>
                    \A i \in 1..Len(store[m.chat_id]) :
                        store[m.chat_id][i].id = m.id => store[m.chat_id][i] = m

\* C28 on the JSON backend alone
C28_LastWriteWinsJson == ~mongo_enabled => C28_LastWriteWins

\* a message stored with another content has just been fetched again
C28_Refetched ==
    /\ last.op = "get" /\ ~last.err
    /\ \E k \in 1..Len(last.iters) :
          \E m \in Range(last.iters[k].kept) : StoredDifferently(m)

\* a stored record gets a field that Message(...) does not accept, written
\* by something other than this engine
Corrupt(c, i) ==
    /\ last.op = "idle"
    /\ i \in 1..Len(store[c])
    /\ ~Malformed(store[c])
    /\ store' = [store EXCEPT ![c][i].flags = @ \cup {"unknown"}]
    /\ UNCHANGED <<mongo_enabled, migrated, remote, fileExists, dialogs,
                   newest_message_call_count, migration_map, entitiesFile, last>>
    /\ UNCHANGED others

NextCorrupt ==
    \/ \E c \in Chats, a \in PlainArgs : GetMessages(c, a)
    \/ Return
    \/ \E c \in Chats, i \in 1..MaxMsgs : Corrupt(c, i)
    \/ \E d \in Dates : RemoteArrival(d)

SpecCorrupt == Init /\ [][NextCorrupt]_vars

\* the records of a list that can be parsed
WellFormed(docs) == {docs[i] : i \in {j \in 1..Len(docs) : docs[j].flags \subseteq MessageFields}}

\* C27: a call served from the cache of a chat that holds a record which
\* cannot be parsed does not fail, and the call without arguments returns
\* every stored record that can be parsed
C27_MalformedSkipped ==
    (/\ last.op = "get"
     /\ last.path = <<"cache">>
     /\ Malformed(last.pre[last.chat])) =>
        /\ ~last.err
        /\ last.args = NoArgs =>
              WellFormed(last.pre[last.chat]) \subseteq Range(last.ret)

\* C27 on one backend at a time
C27_MalformedSkippedMongo == mongo_enabled => C27_MalformedSkipped
C27_MalformedSkippedJson == ~mongo_enabled => C27_MalformedSkipped

\* ------------------------------------------------ TelegramChat.get_messages
\* get_telegram_cache(...): a new TelegramCache on the same store and files
FreshCache(reversed) ==
    [Ctx0(reversed) EXCEPT !.dialogs = NoDialogs, !.count = 0,
                           !.migration_map = NoMigrationMap]

\* the chat objects get_chats gives once the group is upgraded: the live
\* chat, linked to its predecessor
LinkedChats ==
    {ch \in Range(_process_migrations(BuildMigrationMap(RemoteMigrations),
                                      ChatObjs(RemoteMigrations))) :
        ch.migrated_from # NoneVal}

\* "messages.extend(old_messages)"; what the second call raises is logged
\* and the messages of the first call are returned
ExtendWithOld(s1, s2) ==
    IF s2.err THEN [s2 EXCEPT !.err = FALSE, !.out = s1.out]
    ELSE [s2 EXCEPT !.out = s1.out \o s2.out]

\* TelegramChat.get_messages() of a linked chat: cache.get_messages(self.id),
\* then cache.get_messages(self._migrated_from_chat_id)
ChatGetMessages(c) ==
    /\ last.op = "idle"
    /\ \E ch \in {l \in LinkedChats : l.id = c} :
       \E reversed \in WriteOrders :
       \E s1 \in {get_raw_messages(FreshCache(reversed), ch.id, FALSE, NoneVal, NoneVal,
                                  NoneVal, NoneVal, FALSE)} :
       \E s2 \in {IF s1.err THEN s1
                  ELSE get_raw_messages([s1 EXCEPT !.out = <<>>], ch.migrated_from, FALSE,
                                        NoneVal, NoneVal, NoneVal, NoneVal, FALSE)} :
       \E s \in {IF s1.err THEN s1 ELSE ExtendWithOld(s1, s2)} :
          /\ store' = s.store
          /\ fileExists' = s.fileExists
          /\ entitiesFile' = s.entitiesFile
          /\ last' = Observation("chat", ch.id, NoArgs, s)
    /\ UNCHANGED <<mongo_enabled, migrated, remote, dialogs, newest_message_call_count,
                   migration_map>>
    /\ UNCHANGED others

NextChatObjects ==
    \/ \E c \in Chats : ChatGetMessages(c)
    \/ \E c \in Chats, a \in PlainArgs : GetMessages(c, a)
    \/ Return
    \/ RemoteMigration
    \/ \E d \in Dates : RemoteArrival(d)

SpecChatObjects == Init /\ [][NextChatObjects]_vars

\* C29: TelegramChat.get_messages of a chat linked to its predecessor
\* returns no message twice
C29_MergedHistoryOnce ==
    (last.op = "chat" /\ ~last.err) => NoDuplicateKeys(last.ret)

\* ------------------------------------------- get_telegram_cache_context()
\* get_telethon_client(account) under alru_cache: the first call makes and
\* connects the client, every later call is given the same object
get_telethon_client(c) ==
    IF c.cached THEN c ELSE [cached |-> TRUE, connected |-> TRUE]

\* "await self._telethon_client.disconnect()"
Disconnected(c) == [c EXCEPT !.connected = FALSE]

\* close(): "if self._telethon_client is not None and
\* self._telethon_client.is_connected()"
Closes(held, c) == held /\ c.connected

\* _TelegramCacheContextManager(telethon_account=a).__aenter__(): a new
\* TelegramCache, then init_telethon_client; connected records whether the
\* client of the cache it yields is connected at that moment
Enter(b, a) ==
    /\ ~blocks[b].open
    /\ client_cache' = [client_cache EXCEPT ![a] = get_telethon_client(@)]
    /\ blocks' = [blocks EXCEPT ![b] =
                    [open |-> TRUE, account |-> a, held |-> TRUE,
                     connected |-> get_telethon_client(client_cache[a]).connected]]
    /\ UNCHANGED singleton
    /\ UNCHANGED <<engine, session, builder, pinned, downloader, tasks>>

\* _TelegramCacheContextManager.__aexit__(): close() of its cache
Exit(b) ==
    /\ blocks[b].open
    /\ client_cache' =
          IF Closes(blocks[b].held, client_cache[blocks[b].account])
          THEN [client_cache EXCEPT ![blocks[b].account] = Disconnected(@)]
          ELSE client_cache
    /\ blocks' = [blocks EXCEPT ![b] = NoBlock]
    /\ UNCHANGED singleton
    /\ UNCHANGED <<engine, session, builder, pinned, downloader, tasks>>

\* TelegramCache().init_telethon_client() on the singleton
SingletonInit ==
    /\ ~singleton.held
    /\ client_cache' = [client_cache EXCEPT ![singleton.account] = get_telethon_client(@)]
    /\ singleton' = [singleton EXCEPT !.held = TRUE]
    /\ UNCHANGED blocks
    /\ UNCHANGED <<engine, session, builder, pinned, downloader, tasks>>

\* TelegramCache().close() on the singleton; the reference is dropped only
\* when the client was connected
SingletonClose ==
    /\ singleton.held
    /\ Closes(singleton.held, client_cache[singleton.account])
    /\ client_cache' = [client_cache EXCEPT ![singleton.account] = Disconnected(@)]
    /\ singleton' = [singleton EXCEPT !.held = FALSE]
    /\ UNCHANGED blocks
    /\ UNCHANGED <<engine, session, builder, pinned, downloader, tasks>>

NextLifecycle ==
    \/ \E b \in Blocks, a \in Accounts : Enter(b, a)
    \/ \E b \in Blocks : Exit(b)
    \/ SingletonInit
    \/ SingletonClose

SpecLifecycle == Init /\ [][NextLifecycle]_vars

C30_Reentered ==
    \E b \in Blocks :
        /\ blocks[b].open
        /\ client_cache[blocks[b].account].cached
        /\ ~blocks[b].connected

\* ------------------------------------- TelegramDownloader.download_all_chats
\* get_outdated_chats: the test made for one dialog
Outdated(s, c) ==
    /\ s.dialogs.date[c] # NoneVal
    /\ \/ ~_has_cached_messages(s, c)
       \/ ~s.mongo_enabled
       \/ _get_message_range(s.store[c]).max_date = NoneVal
       \/ s.dialogs.date[c] > _get_message_range(s.store[c]).max_date

\* the loop of get_outdated_chats over the dialogs held
OutdatedIn(s) ==
    IF s.err THEN s ELSE SetOut(s, SelectSeq(ChatOrder, LAMBDA c : Outdated(s, c)))

get_outdated_chats(s) == OutdatedIn(get_raw_dialogs(s, FALSE))

\* "dialogs_to_process = await self.cache.get_raw_dialogs()"
AllDialogs(s) == IF s.err THEN s ELSE SetOut(s, ChatOrder)

\* download_chat after get_raw_messages: the number of new messages, by
\* the stored count on MongoDB and by the length of the result on JSON
CountNew(initial_count, s, c) ==
    SetVal(s, IF s.mongo_enabled THEN _get_message_range(s.store[c]).count - initial_count
              ELSE Len(s.out))

\* download_chat(chat_id, limit=limit)
download_chat(s, c, limit) ==
    CountNew(IF s.mongo_enabled THEN _get_message_range(s.store[c]).count ELSE 0,
             get_raw_messages(s, c, FALSE, limit, NoneVal, NoneVal, NoneVal, FALSE),
             c)

\* the body of "for dialog in progress_bar" after download_chat: the try
\* branch, or "except Exception: stats['errors'] += 1; continue"
UpdateStats(stats, s) ==
    IF s.err THEN [stats EXCEPT !.errors = @ + 1]
    ELSE [stats EXCEPT !.total_new_messages = @ + s.val,
                       !.processed_chats = @ + 1,
                       !.skipped = IF s.val = 0 THEN @ + 1 ELSE @]

\* a loop that starts the next chat without awaiting the one in flight
MayBeginAlways(d) == TRUE

\* "new_messages = await self.download_chat(...)": the loop goes on to the
\* next dialog when the call has returned or raised
MayBegin(d) == d.inflight = {}

\* download_all_chats(limit_per_chat=limit, only_outdated=only_outdated) up
\* to the loop: the dialogs to process and the fresh stats
DownloadAllChats(only_outdated, limit) ==
    /\ last.op = "idle"
    /\ ~downloader.running
    /\ \E s \in {IF only_outdated THEN get_outdated_chats(Ctx0(FALSE))
                 ELSE AllDialogs(get_raw_dialogs(Ctx0(FALSE), FALSE))} :
          /\ dialogs' = s.dialogs
          /\ entitiesFile' = s.entitiesFile
          /\ downloader' =
                [running |-> s.out # <<>>, returned |-> s.out = <<>>, todo |-> s.out,
                 inflight |-> {}, done |-> <<>>,
                 stats |-> [NoStats EXCEPT !.total_chats = Len(s.out)],
                 limit |-> limit]
    /\ UNCHANGED <<mongo_enabled, migrated, remote, store, fileExists,
                   newest_message_call_count, migration_map, last, twin>>
    /\ UNCHANGED <<session, builder, pinned, lifecycle, tasks>>

\* the loop takes the next dialog and calls download_chat
BeginChat(c) ==
    /\ downloader.running
    /\ MayBegin(downloader)
    /\ downloader.todo # <<>>
    /\ c = Head(downloader.todo)
    /\ downloader' = [downloader EXCEPT !.todo = Tail(@), !.inflight = @ \cup {c}]
    /\ UNCHANGED <<engine, session, builder, pinned, lifecycle, tasks>>

\* download_chat of the dialog in flight returns or raises, the gateway
\* failing on the requests of fault f
CompleteChat(c, f) ==
    /\ c \in downloader.inflight
    /\ \E reversed \in WriteOrders :
       \E s \in {download_chat(CtxFault(reversed, f), c, downloader.limit)} :
          /\ store' = s.store
          /\ fileExists' = s.fileExists
          /\ dialogs' = s.dialogs
          /\ newest_message_call_count' = s.count
          /\ migration_map' = s.migration_map
          /\ entitiesFile' = s.entitiesFile
          /\ downloader' =
                [downloader EXCEPT !.inflight = @ \ {c},
                                   !.done = Append(@, [chat |-> c, ok |-> ~s.err]),
                                   !.stats = UpdateStats(@, s)]
    /\ UNCHANGED <<mongo_enabled, migrated, remote, last, twin>>
    /\ UNCHANGED <<session, builder, pinned, lifecycle, tasks>>

\* the loop is over: "return stats"
FinishDownload ==
    /\ downloader.running
    /\ downloader.todo = <<>>
    /\ downloader.inflight = {}
    /\ downloader' = [downloader EXCEPT !.running = FALSE, !.returned = TRUE]
    /\ UNCHANGED <<engine, session, builder, pinned, lifecycle, tasks>>

\* the gateway faults a download may meet: none, or one kind of request
\* failing from the start
DownloadFaults == {NoFault} \cup {f \in Faults : f.after = 0 /\ f.at = 0}

NextDownload ==
    \/ \E only_outdated \in BOOLEAN : DownloadAllChats(only_outdated, NoneVal)
    \/ \E c \in Chats : BeginChat(c)
    \/ \E c \in Chats, f \in DownloadFaults : CompleteChat(c, f)
    \/ FinishDownload
    \/ \E d \in Dates : RemoteArrival(d)

SpecDownload == Init /\ [][NextDownload]_vars

\* the chats of done whose download raised
Failed(done) == {i \in 1..Len(done) : ~done[i].ok}

\* C22: download_all_chats has at most one chat in flight, a chat is
\* started only when every chat before it has completed, every completed
\* chat is counted either as processed or as an error, and when the call
\* returns every chat of the list has been handled, errors or not
C22_OneChatAtATime ==
    /\ Cardinality(downloader.inflight) <= 1
    /\ downloader.stats.errors = Cardinality(Failed(downloader.done))
    /\ downloader.stats.processed_chats + downloader.stats.errors = Len(downloader.done)
    /\ downloader.running =>
          Len(downloader.done) + Cardinality(downloader.inflight) + Len(downloader.todo)
              = downloader.stats.total_chats
    /\ downloader.returned =>
          /\ downloader.inflight = {}
          /\ Len(downloader.done) = downloader.stats.total_chats

\* the call has returned after a chat that raised and a later chat that
\* was processed
C22_Witness ==
    /\ downloader.returned
    /\ Len(downloader.done) = 2
    /\ ~downloader.done[1].ok
    /\ downloader.done[2].ok
    /\ downloader.stats.errors = 1
    /\ downloader.stats.processed_chats = 1

\* --------------------------------------- concurrent get_raw_messages calls
\* Two tasks call get_raw_messages on the same chat; a step runs from one
\* await on the gateway or the store to the next.  The tasks are coroutines
\* of one event loop or, the in-process fields apart, two processes on the
\* same store: the JSON file is therefore read and written in two steps.
TaskChat == NewChat
TaskLimits == {NoneVal} \cup 1..MaxTaskLimit

Active(tk) == tk.pc \notin {"idle", "done"}

\* the call has returned ret
Done(tk, ret) == [IdleTask EXCEPT !.pc = "done", !.ret = ret, !.overlapped = tk.overlapped]

\* the call has raised
Raised(tk) == [IdleTask EXCEPT !.pc = "done", !.err = TRUE, !.overlapped = tk.overlapped]

\* the JSON branch's tail: deduplicate, sort, truncate
JsonTail(tk) ==
    Done(tk, Truncate(SortedByDateDesc(_deduplicate_messages(tk.messages)), tk.limit))

\* what the caller of _get_raw_messages does with the messages it returns
AfterSave(tk) ==
    CASE tk.cont = "direct" -> Done(tk, tk.buf)
      [] tk.cont = "query" ->
            [tk EXCEPT !.pc = "query", !.buf = <<>>, !.fp = NoFetch, !.cont = "none"]
      [] tk.cont = "extend" -> Done(tk, tk.messages \o tk.buf)
      [] tk.cont = "merge" ->
            [tk EXCEPT !.pc = "total", !.messages = Reverse(tk.buf) \o @,
                       !.buf = <<>>, !.fp = NoFetch, !.cont = "none"]

\* _get_raw_messages has consumed the iterator: _save_raw_messages is next;
\* _save_messages_to_mongo returns at once when there is nothing to save
Fetched(tk, it) ==
    IF mongo_enabled
    THEN IF it = <<>> THEN AfterSave([tk EXCEPT !.buf = it])
         ELSE [tk EXCEPT !.buf = it, !.pending = it, !.pc = "save_doc"]
    ELSE [tk EXCEPT !.buf = it, !.pc = "save_read"]

RemoveAt(s, i) == SubSeq(s, 1, i - 1) \o SubSeq(s, i + 1, Len(s))

\* one operation of the unordered bulk write has been applied
SavedDoc(tk, i) ==
    IF Len(tk.pending) = 1 THEN AfterSave([tk EXCEPT !.pending = <<>>])
    ELSE [tk EXCEPT !.pending = RemoveAt(@, i)]

\* a merge that keeps every record of both lists
JsonMergeKeepAll(messages, existing, existed) ==
    IF existed THEN SortedByDateDesc(messages \o existing) ELSE messages

\* _save_messages_to_json: "data += existing_data", deduplicated and
\* sorted, when the file existed; the page as fetched when it did not
JsonMerge(messages, existing, existed) ==
    IF existed THEN SortedByDateDesc(_deduplicate_messages(messages \o existing))
    ELSE messages

\* get_raw_messages(TaskChat, ignore_cache=, limit=) is called
TStart(t, ignore_cache, limit) ==
    /\ tasks[t].pc = "idle"
    /\ tasks' = [u \in Tasks |->
          IF u = t
          THEN [IdleTask EXCEPT !.pc = "map", !.ignore_cache = ignore_cache,
                                !.limit = limit,
                                !.overlapped = \E v \in Tasks \ {t} : Active(tasks[v])]
          ELSE IF Active(tasks[u]) THEN [tasks[u] EXCEPT !.overlapped = TRUE]
          ELSE tasks[u]]
    /\ UNCHANGED <<engine, session, builder, pinned, lifecycle, downloader>>

\* "await self.init_migration_map()"
TMap(t) ==
    /\ tasks[t].pc = "map"
    /\ \E s \in {init_migration_map(Ctx0(FALSE))} :
          /\ dialogs' = s.dialogs
          /\ migration_map' = s.migration_map
          /\ entitiesFile' = s.entitiesFile
    /\ tasks' = [tasks EXCEPT ![t].pc = "check"]
    /\ UNCHANGED <<mongo_enabled, migrated, remote, store, fileExists,
                   newest_message_call_count, last, twin>>
    /\ UNCHANGED <<session, builder, pinned, lifecycle, downloader>>

\* _get_messages_for_single_chat: "has_cache = await
\* self._has_cached_messages(chat_id)" and the choice of the branch
TCheck(t) ==
    /\ tasks[t].pc = "check"
    /\ tasks' = [tasks EXCEPT ![t] =
          IF @.ignore_cache \/ ~_has_cached_messages(Ctx0(FALSE), TaskChat)
          THEN [@ EXCEPT !.pc = "fetch", !.fp = [NoFetch EXCEPT !.limit = tasks[t].limit],
                         !.cont = "direct"]
          ELSE [@ EXCEPT !.pc = IF mongo_enabled THEN "range" ELSE "load"]]
    /\ UNCHANGED <<engine, session, builder, pinned, lifecycle, downloader>>

\* _get_raw_messages up to _save_raw_messages: the chat name (which loads
\* the dialogs) and the iteration over client.iter_messages
TFetch(t) ==
    /\ tasks[t].pc = "fetch"
    /\ \E s \in {init_dialogs(Ctx0(FALSE))} :
          /\ dialogs' = s.dialogs
          /\ entitiesFile' = s.entitiesFile
    /\ tasks' = [tasks EXCEPT ![t] =
          Fetched(@, iter_messages(TaskChat, @.fp.limit, @.fp.offset, @.fp.offset_date,
                                   @.fp.reverse))]
    /\ UNCHANGED <<mongo_enabled, migrated, remote, store, fileExists,
                   newest_message_call_count, migration_map, last, twin>>
    /\ UNCHANGED <<session, builder, pinned, lifecycle, downloader>>

\* _save_messages_to_mongo: one UpdateOne of bulk_write(ordered=False)
TSaveDoc(t, i) ==
    /\ tasks[t].pc = "save_doc"
    /\ i \in 1..Len(tasks[t].pending)
    /\ store' = [store EXCEPT ![TaskChat] = UpsertOne(@, tasks[t].pending[i])]
    /\ tasks' = [tasks EXCEPT ![t] = SavedDoc(@, i)]
    /\ UNCHANGED <<mongo_enabled, migrated, remote, fileExists, dialogs,
                   newest_message_call_count, migration_map, entitiesFile, last, twin>>
    /\ UNCHANGED <<session, builder, pinned, lifecycle, downloader>>

\* _save_messages_to_json: "if output_path.exists(): existing_data =
\* json.load(...)"
TSaveRead(t) ==
    /\ tasks[t].pc = "save_read"
    /\ tasks' = [tasks EXCEPT ![t].pc = "save_write",
                              ![t].existed = fileExists[TaskChat],
                              ![t].existing =
                                  IF fileExists[TaskChat] THEN store[TaskChat] ELSE <<>>]
    /\ UNCHANGED <<engine, session, builder, pinned, lifecycle, downloader>>

\* _save_messages_to_json: "json.dump(data, ...)"
TSaveWrite(t) ==
    /\ tasks[t].pc = "save_write"
    /\ store' = [store EXCEPT ![TaskChat] =
                    JsonMerge(tasks[t].buf, tasks[t].existing, tasks[t].existed)]
    /\ fileExists' = [fileExists EXCEPT ![TaskChat] = TRUE]
    /\ tasks' = [tasks EXCEPT ![t] =
                    AfterSave([@ EXCEPT !.existing = <<>>, !.existed = FALSE])]
    /\ UNCHANGED <<mongo_enabled, migrated, remote, dialogs,
                   newest_message_call_count, migration_map, entitiesFile, last, twin>>
    /\ UNCHANGED <<session, builder, pinned, lifecycle, downloader>>

\* _load_newer_messages on MongoDB: "min_date, max_date, count = await
\* self._get_message_range(chat_id)"
TRange(t) ==
    /\ tasks[t].pc = "range"
    /\ tasks' = [tasks EXCEPT ![t] =
          IF _get_message_range(store[TaskChat]).max_date = NoneVal
          THEN [@ EXCEPT !.pc = "query"]
          ELSE [@ EXCEPT !.pc = "probe",
                         !.local_max = _get_message_range(store[TaskChat]).max_date]]
    /\ UNCHANGED <<engine, session, builder, pinned, lifecycle, downloader>>

\* the JSON branch: "messages = await self._load_raw_messages(chat_id)" and
\* the start of _load_newer_messages
TLoad(t) ==
    /\ tasks[t].pc = "load"
    /\ tasks' = [tasks EXCEPT ![t] =
          IF _load_messages_to_json(store[TaskChat]) = <<>>
          THEN [@ EXCEPT !.pc = "total"]
          ELSE [@ EXCEPT !.pc = "probe",
                         !.messages = _load_messages_to_json(store[TaskChat]),
                         !.local_max = FirstDate(_load_messages_to_json(store[TaskChat]))]]
    /\ UNCHANGED <<engine, session, builder, pinned, lifecycle, downloader>>

\* the comparison of _load_newer_messages after the prober answered v
Probed(tk, v) ==
    IF v = NoneVal \/ v <= tk.local_max
    THEN [tk EXCEPT !.pc = IF mongo_enabled THEN "query" ELSE "total"]
    ELSE [tk EXCEPT !.pc = "fetch",
                    !.fp = [NoFetch EXCEPT !.offset_date = tk.local_max, !.reverse = TRUE],
                    !.cont = IF mongo_enabled THEN "query" ELSE "merge"]

\* "dialog_date = await self._get_newest_message_date(chat_id)"
TProbe(t) ==
    /\ tasks[t].pc = "probe"
    /\ \E s \in {_get_newest_message_date(Ctx0(FALSE), TaskChat)} :
          /\ dialogs' = s.dialogs
          /\ newest_message_call_count' = s.count
          /\ entitiesFile' = s.entitiesFile
          /\ tasks' = [tasks EXCEPT ![t] = Probed(@, s.val)]
    /\ UNCHANGED <<mongo_enabled, migrated, remote, store, fileExists,
                   migration_map, last, twin>>
    /\ UNCHANGED <<session, builder, pinned, lifecycle, downloader>>

\* the MongoDB branch: "messages = await self._load_raw_messages(chat_id,
\* limit=limit, ...)"
TQuery(t) ==
    /\ tasks[t].pc = "query"
    /\ tasks' = [tasks EXCEPT ![t].pc = "total",
                              ![t].messages =
                                  _load_messages_from_mongo(store[TaskChat], tasks[t].limit,
                                                            NoneVal, NoneVal, NoneVal)]
    /\ UNCHANGED <<engine, session, builder, pinned, lifecycle, downloader>>

\* _load_missing_messages after "all_messages = await
\* client.get_messages(chat_id)", target being the limit it settles on:
\* enough messages are held, or more are needed (_get_message_range raises
\* on the JSON backend)
Counted(tk, target) ==
    IF Len(tk.messages) < target
    THEN IF mongo_enabled
         THEN [tk EXCEPT !.pc = "older",
                         !.fp = [NoFetch EXCEPT !.limit = target - Len(tk.messages),
                                                !.offset = Len(tk.messages)]]
         ELSE Raised(tk)
    ELSE IF mongo_enabled THEN Done(tk, tk.messages) ELSE JsonTail(tk)

TTotal(t) ==
    /\ tasks[t].pc = "total"
    /\ tasks' = [tasks EXCEPT ![t] =
                    Counted(@, TargetCount(tasks[t].limit, TotalCount(TaskChat)))]
    /\ UNCHANGED <<engine, session, builder, pinned, lifecycle, downloader>>

\* "min_date_mongo, _, count = await self._get_message_range(chat_id)"
\* before the older messages are fetched
TOlder(t) ==
    /\ tasks[t].pc = "older"
    /\ tasks' = [tasks EXCEPT ![t].pc = "fetch",
                              ![t].cont = "extend",
                              ![t].fp.offset_date =
                                  OldestCachedDate(_get_message_range(store[TaskChat]))]
    /\ UNCHANGED <<engine, session, builder, pinned, lifecycle, downloader>>

\* the caller has taken the result
TReturn(t) ==
    /\ tasks[t].pc = "done"
    /\ tasks' = [tasks EXCEPT ![t] = IdleTask]
    /\ UNCHANGED <<engine, session, builder, pinned, lifecycle, downloader>>

\* a chat without predecessor, on either backend
InitTasks ==
    /\ mongo_enabled \in BOOLEAN
    /\ migrated = FALSE
    /\ remote = [c \in Chats |-> IF c = OldChat THEN [i \in 1..MaxOld |-> i] ELSE <<1>>]
    /\ store = [c \in Chats |-> <<>>]
    /\ fileExists = [c \in Chats |-> FALSE]
    /\ dialogs = NoDialogs
    /\ newest_message_call_count = 0
    /\ migration_map = NoMigrationMap
    /\ entitiesFile = [exists |-> FALSE, entities |-> {}]
    /\ last = Idle
    /\ twin = NoTwin
    /\ InitSession
    /\ InitSide

NextTasks ==
    \/ \E t \in Tasks, ignore_cache \in BOOLEAN, limit \in TaskLimits :
          TStart(t, ignore_cache, limit)
    \/ \E t \in Tasks : TMap(t)
    \/ \E t \in Tasks : TCheck(t)
    \/ \E t \in Tasks : TFetch(t)
    \/ \E t \in Tasks, i \in 1..MaxMsgs : TSaveDoc(t, i)
    \/ \E t \in Tasks : TSaveRead(t)
    \/ \E t \in Tasks : TSaveWrite(t)
    \/ \E t \in Tasks : TRange(t)
    \/ \E t \in Tasks : TLoad(t)
    \/ \E t \in Tasks : TProbe(t)
    \/ \E t \in Tasks : TQuery(t)
    \/ \E t \in Tasks : TTotal(t)
    \/ \E t \in Tasks : TOlder(t)
    \/ \E t \in Tasks : TReturn(t)
    \/ \E d \in Dates : RemoteArrival(d)

SpecTasks == InitTasks /\ [][NextTasks]_vars

\* C21: however two get_raw_messages calls on one chat interleave, each
\* sequence returned is sorted newest first and has no two messages with
\* the same (chat_id, id), and the store never holds two records with the
\* same (chat_id, id)
C21_ConcurrentCallsConsistent ==
    /\ \A t \in Tasks :
          (tasks[t].pc = "done" /\ ~tasks[t].err) =>
              /\ IsNewestFirst(tasks[t].ret)
              /\ NoDuplicateKeys(tasks[t].ret)
    /\ \A c \in Chats : NoDuplicateKeys(store[c])

\* two calls that ran at the same time have both returned messages
C21_Witness ==
    \A t \in Tasks :
        /\ tasks[t].pc = "done"
        /\ ~tasks[t].err
        /\ tasks[t].overlapped
        /\ Len(tasks[t].ret) > 1
====
